---------------------------- MODULE Spec2Model ----------------------------
(***************************************************************************)
(* A model of the Wazuh ingestion API (src/api/api.py): the middleware     *)
(* chain RequestID -> Timeout -> SlowAPI -> PayloadSizeLimit, the          *)
(* get_api_key dependency, the pydantic request models, the per-route      *)
(* rate limit, the /ingest, /batch and /health handlers, send_msg and the  *)
(* exception handlers.                                                     *)
(*                                                                         *)
(* A request is one asyncio task.  Its steps are the actions below; the    *)
(* steps from body validation to the end of the handler contain no await   *)
(* and therefore run without any other task (or the timeout) in between.   *)
(* The agent's socket file belongs to another operating-system process:    *)
(* whether it exists, and what connect() and send() answer, are inputs of  *)
(* every call that asks.                                                   *)
(***************************************************************************)
EXTENDS Integers, Sequences, FiniteSets, TLC

(***************************************************************************)
(* Bounds of the model.                                                    *)
(***************************************************************************)
MaxInFlight == 2    \* request slots (tasks that may exist at once)
MaxRequests == 2    \* requests accepted by the server in one behaviour
MaxBatch == 2       \* longest batch whose events are enumerated one by one

(***************************************************************************)
(* Program constants.                                                      *)
(***************************************************************************)
REQUEST_TIMEOUT_SECONDS == 30
SLOW_REQUEST_THRESHOLD == 5
MAX_CONTENT_LENGTH_DEFAULT == 10 * 1024 * 1024
MAX_CONTENT_LENGTH_INGEST == 1 * 1024 * 1024
MAX_CONTENT_LENGTH_BATCH == 10 * 1024 * 1024
API_KEY_NAME == "X-API-Key"
API_KEY == "s3cr3t-key"          \* read_secret("api_key"): some non-empty string
SOURCE_MAX_LENGTH == 256
MESSAGE_MAX_LENGTH == 65536
TAG_MAX_LENGTH == 64
DECODER_MAX_LENGTH == 128
TIMESTAMP_MIN_LENGTH == 10
MIN_ITEMS == 1
MAX_ITEMS == 1000
RATE_LIMIT == 100                \* "100/minute"
ECONNREFUSED == 111
EMSGSIZE == 90
ENOENT == 2
SERVICE_VERSION == "1.0.0"
DEFAULT_DECODER_HEADER == "1:Wazuh-AWS:"
SOCKET_PATH == "/var/ossec/queue/sockets/queue"

(***************************************************************************)
(* JSON values.  A value is a record tagged by its kind; "absent" is a key *)
(* that the JSON object does not have, "null" is JSON null / Python None.  *)
(***************************************************************************)
JAbsent == [k |-> "absent"]
JNull == [k |-> "null"]
JStr(s) == [k |-> "str", v |-> s]
JList(items) == [k |-> "list", v |-> items]
JObj(pairs) == [k |-> "obj", v |-> pairs]
Pair(key, val) == [key |-> key, val |-> val]

Quote == "\""

RECURSIVE JoinItems(_)
RECURSIVE JoinPairs(_)

\* json.dumps of a string without characters that need escaping
DumpsStr(s) == Quote \o s \o Quote

\* json.dumps of a list of strings, separator ", "
JoinItems(items) ==
    IF Len(items) = 0 THEN ""
    ELSE IF Len(items) = 1 THEN DumpsStr(items[1])
    ELSE DumpsStr(items[1]) \o ", " \o JoinItems(Tail(items))

\* json.dumps of a value that is a string, a list of strings or an object
\* of strings (the values the model's events hold)
DumpsValue(val) ==
    CASE val.k = "str" -> DumpsStr(val.v)
      [] val.k = "list" -> "[" \o JoinItems(val.v) \o "]"
      [] val.k = "obj" -> "{" \o JoinPairs(val.v) \o "}"
      [] val.k = "null" -> "null"

\* the members of a dict in insertion order, separators ", " and ": "
JoinPairs(pairs) ==
    IF Len(pairs) = 0 THEN ""
    ELSE IF Len(pairs) = 1
         THEN DumpsStr(pairs[1].key) \o ": " \o DumpsValue(pairs[1].val)
    ELSE DumpsStr(pairs[1].key) \o ": " \o DumpsValue(pairs[1].val)
             \o ", " \o JoinPairs(Tail(pairs))

\* json.dumps(msg) for a dict msg
json_dumps(msg) == "{" \o JoinPairs(msg) \o "}"

HasKey(msg, key) == \E i \in 1..Len(msg) : msg[i].key = key
GetKey(msg, key) == msg[CHOOSE i \in 1..Len(msg) : msg[i].key = key].val

\* msg[key] = val on a dict: replaces in place, or appends a new key
SetKey(msg, key, val) ==
    IF HasKey(msg, key)
    THEN [i \in 1..Len(msg) |-> IF msg[i].key = key THEN Pair(key, val) ELSE msg[i]]
    ELSE Append(msg, Pair(key, val))


(***************************************************************************)
(* IngestEvent and BatchIngestRequest: the pydantic models.                *)
(***************************************************************************)
allowed_levels == {"debug", "info", "warning", "error", "critical"}

\* str.lower() on the level strings a client of the model sends
Lower(s) ==
    CASE s = "INFO" -> "info"
      [] s = "Warning" -> "warning"
      [] s = "ERROR" -> "error"
      [] s = "Critical" -> "critical"
      [] s = "DEBUG" -> "debug"
      [] s = "VERBOSE" -> "verbose"
      [] OTHER -> s

\* timestamp: required str; validate_timestamp rejects "" and len < 10
timestamp_ok(val) ==
    /\ val.k = "str"
    /\ val.v # ""
    /\ Len(val.v) >= TIMESTAMP_MIN_LENGTH

\* source: required str, min_length=1, max_length=256
source_ok(val) ==
    /\ val.k = "str"
    /\ Len(val.v) >= 1
    /\ Len(val.v) <= SOURCE_MAX_LENGTH

\* message: required str, min_length=1, max_length=65536
message_ok(val) ==
    /\ val.k = "str"
    /\ Len(val.v) >= 1
    /\ Len(val.v) <= MESSAGE_MAX_LENGTH

\* level: Optional[str], default "info"; validate_level
level_ok(val) ==
    \/ val.k \in {"absent", "null"}
    \/ /\ val.k = "str"
       /\ (val.v = "" \/ Lower(val.v) \in allowed_levels)

\* validate_level's return value: "return v.lower() if v else 'info'"; the
\* validator is not run on the default, and it is run on an explicit null
validate_level(val) ==
    CASE val.k = "absent" -> JStr("info")
      [] val.k = "null" -> JStr("info")
      [] val.k = "str" -> IF val.v = "" THEN JStr("info") ELSE JStr(Lower(val.v))

\* validate_tags (pre=True, always=True) followed by List[str]
tags_ok(val) ==
    \/ val.k \in {"absent", "null"}
    \/ /\ val.k = "list"
       /\ \A i \in 1..Len(val.v) : Len(val.v[i]) <= TAG_MAX_LENGTH

\* a validator that returns the list from its last tag to its first
validate_tags_reversing(val) ==
    IF val.k \in {"absent", "null"} THEN JList(<<>>)
    ELSE JList([i \in 1..Len(val.v) |-> val.v[Len(val.v) + 1 - i]])

\* validate_tags returns None as [] and a list as it is
validate_tags(val) ==
    IF val.k \in {"absent", "null"} THEN JList(<<>>) ELSE val

\* metadata: Optional[Dict[str, Any]], default {}
metadata_ok(val) == val.k \in {"absent", "null", "obj"}

validate_metadata(val) ==
    IF val.k = "absent" THEN JObj(<<>>) ELSE val

\* decoder: Optional[str], default None, max_length=128
decoder_ok(val) ==
    \/ val.k \in {"absent", "null"}
    \/ /\ val.k = "str"
       /\ Len(val.v) <= DECODER_MAX_LENGTH

validate_decoder(val) ==
    IF val.k = "absent" THEN JNull ELSE val

\* the fields of a raw event that fail validation, in field order
EventErrors(raw) ==
    SelectSeq(<<"timestamp", "source", "message", "level", "tags", "metadata", "decoder">>,
              LAMBDA f :
                  CASE f = "timestamp" -> ~timestamp_ok(raw.timestamp)
                    [] f = "source" -> ~source_ok(raw.source)
                    [] f = "message" -> ~message_ok(raw.message)
                    [] f = "level" -> ~level_ok(raw.level)
                    [] f = "tags" -> ~tags_ok(raw.tags)
                    [] f = "metadata" -> ~metadata_ok(raw.metadata)
                    [] f = "decoder" -> ~decoder_ok(raw.decoder))

EventValid(raw) == EventErrors(raw) = <<>>

\* IngestEvent(**raw) for a raw event that validates; extra keys are ignored
IngestEvent(raw) ==
    [timestamp |-> raw.timestamp,
     source |-> raw.source,
     message |-> raw.message,
     level |-> validate_level(raw.level),
     tags |-> validate_tags(raw.tags),
     metadata |-> validate_metadata(raw.metadata),
     decoder |-> validate_decoder(raw.decoder)]

\* a batch model that validates its events one at a time, as they are used
BatchValid_lazy(events) ==
    /\ Len(events) >= MIN_ITEMS
    /\ Len(events) <= MAX_ITEMS
    /\ EventValid(events[1])

\* a batch model without max_items
BatchValid_unbounded(events) ==
    /\ Len(events) >= MIN_ITEMS
    /\ \A i \in 1..Len(events) : EventValid(events[i])

\* BatchIngestRequest: events is List[IngestEvent], min_items=1, max_items=1000
BatchValid(events) ==
    /\ Len(events) >= MIN_ITEMS
    /\ Len(events) <= MAX_ITEMS
    /\ \A i \in 1..Len(events) : EventValid(events[i])

\* event.dict(exclude_none=True): the fields in declaration order, None left out
EventDict(event) ==
    SelectSeq(<<Pair("timestamp", event.timestamp),
                Pair("source", event.source),
                Pair("message", event.message),
                Pair("level", event.level),
                Pair("tags", event.tags),
                Pair("metadata", event.metadata),
                Pair("decoder", event.decoder)>>,
              LAMBDA p : p.val.k # "null")

(***************************************************************************)
(* send_msg: the wire message.                                             *)
(***************************************************************************)
\* os.getenv("WAZUH_DECODER_HEADER", "1:Wazuh-AWS:"); envHeader is "" when
\* the variable is not set
default_header(envHeader) ==
    IF envHeader = "" THEN DEFAULT_DECODER_HEADER ELSE envHeader

\* a header that ignores the event's own decoder
message_header_default_only(msg, envHeader) == default_header(envHeader)

\* if 'decoder' in msg: "1:{0}:".format(msg['decoder']) else default_header
message_header(msg, envHeader) ==
    IF HasKey(msg, "decoder")
    THEN "1:" \o GetKey(msg, "decoder").v \o ":"
    ELSE default_header(envHeader)

\* msg['ingest'] = "api", then
\* "{header}{msg}".format(header=message_header, msg=json.dumps(msg))
full_message(msg, envHeader) ==
    message_header(msg, envHeader) \o json_dumps(SetKey(msg, "ingest", JStr("api")))

\* a decoder holding a lone surrogate: str.encode() raises UnicodeEncodeError
LoneSurrogate == "\\ud83d"

Encodable(msg) ==
    ~(HasKey(msg, "decoder") /\ GetKey(msg, "decoder").v = LoneSurrogate)


(***************************************************************************)
(* Header and path strings are sequences of characters, so that int() and  *)
(* the "in" substring tests are computed as the code computes them.        *)
(***************************************************************************)
Digits == {"0", "1", "2", "3", "4", "5", "6", "7", "8", "9"}

RECURSIVE DecimalValue(_)
DecimalValue(chars) ==
    LET DigitValue(c) ==
            CASE c = "0" -> 0 [] c = "1" -> 1 [] c = "2" -> 2 [] c = "3" -> 3
              [] c = "4" -> 4 [] c = "5" -> 5 [] c = "6" -> 6 [] c = "7" -> 7
              [] c = "8" -> 8 [] c = "9" -> 9
    IN IF Len(chars) = 0 THEN 0
       ELSE 10 * DecimalValue(SubSeq(chars, 1, Len(chars) - 1))
                + DigitValue(chars[Len(chars)])

Unsigned(chars) ==
    IF Len(chars) > 0 /\ chars[1] \in {"+", "-"} THEN Tail(chars) ELSE chars

\* whether int(chars) returns (an optional sign, then one or more digits);
\* otherwise it raises ValueError
IntParses(chars) ==
    /\ Len(Unsigned(chars)) > 0
    /\ \A i \in 1..Len(Unsigned(chars)) : Unsigned(chars)[i] \in Digits

\* int(chars)
IntOf(chars) ==
    IF Len(chars) > 0 /\ chars[1] = "-"
    THEN 0 - DecimalValue(Unsigned(chars))
    ELSE DecimalValue(Unsigned(chars))

\* sub in text, for Python strings
Contains(text, sub) ==
    \E i \in 0..(Len(text) - Len(sub)) : SubSeq(text, i + 1, i + Len(sub)) = sub

PathRoot == <<"/">>
PathIngest == <<"/", "i", "n", "g", "e", "s", "t">>
PathBatch == <<"/", "b", "a", "t", "c", "h">>
PathHealth == <<"/", "h", "e", "a", "l", "t", "h">>
PathLive == <<"/", "h", "e", "a", "l", "t", "h", "/", "l", "i", "v", "e">>
PathReady == <<"/", "h", "e", "a", "l", "t", "h", "/", "r", "e", "a", "d", "y">>
\* a stage that gives the 1 MiB ceiling to the route /ingest alone
max_size_by_route(path) ==
    IF path = PathIngest THEN MAX_CONTENT_LENGTH_INGEST ELSE MAX_CONTENT_LENGTH_BATCH

\* PayloadSizeLimitMiddleware: the ceiling chosen for a path
max_size(path) ==
    IF Contains(path, PathBatch) THEN MAX_CONTENT_LENGTH_BATCH
    ELSE IF path = PathRoot \/ Contains(path, PathIngest) THEN MAX_CONTENT_LENGTH_INGEST
    ELSE MAX_CONTENT_LENGTH_DEFAULT

\* routes declared with dependencies=[Depends(get_api_key)]
AuthenticatedRoutes == {PathIngest, PathBatch, PathHealth}

\* routes whose handler takes a request body
BodyRoutes == {PathIngest, PathBatch}

(***************************************************************************)
(* Responses.  headers.request_id is 0 when the X-Request-ID header is not *)
(* set; headers.duration says whether X-Request-Duration is set.           *)
(***************************************************************************)
NoHeaders == [request_id |-> 0, duration |-> FALSE]

JSONResponse(status, content, headers) ==
    [status |-> status, body |-> content, headers |-> headers]

\* a server that answers 502 when a delivery failed
Returned_escalating(content) ==
    JSONResponse(IF content.status = "error"
                    \/ ("errors" \in DOMAIN content /\ content.errors > 0)
                 THEN 502 ELSE 200,
                 content, NoHeaders)

\* a handler's return value, sent by FastAPI with status 200
Returned(content) == JSONResponse(200, content, NoHeaders)

_get_error_name(status_code) ==
    CASE status_code = 400 -> "Bad Request"
      [] status_code = 401 -> "Unauthorized"
      [] status_code = 403 -> "Forbidden"
      [] status_code = 404 -> "Not Found"
      [] status_code = 405 -> "Method Not Allowed"
      [] status_code = 408 -> "Request Timeout"
      [] status_code = 413 -> "Payload Too Large"
      [] status_code = 422 -> "Unprocessable Entity"
      [] status_code = 429 -> "Too Many Requests"
      [] status_code = 500 -> "Internal Server Error"
      [] status_code = 502 -> "Bad Gateway"
      [] status_code = 503 -> "Service Unavailable"
      [] status_code = 504 -> "Gateway Timeout"
      [] OTHER -> "Error"

\* _sanitize_error_message on the messages of this model, none of which
\* holds a file path, a line number, a module reference or an address
_sanitize_error_message(message) ==
    IF message = "" THEN "An error occurred" ELSE message

\* http_exception_handler: detail is the HTTPException's detail dict
http_exception_handler(request_id, status_code, detail) ==
    LET message == IF HasKey(detail, "message") THEN GetKey(detail, "message").v
                   ELSE IF HasKey(detail, "error") THEN GetKey(detail, "error").v
                   ELSE "An error occurred"
    IN  JSONResponse(status_code,
                     [error |-> _get_error_name(status_code),
                      message |-> _sanitize_error_message(message),
                      request_id |-> request_id],
                     [request_id |-> request_id, duration |-> FALSE])

\* ".".join(str(loc) for loc in error["loc"] if loc != "body")
RECURSIVE JoinDot(_)
JoinDot(loc) ==
    IF Len(loc) = 0 THEN ""
    ELSE IF Len(loc) = 1 THEN loc[1]
    ELSE loc[1] \o "." \o JoinDot(Tail(loc))

\* field_path: ".".join(str(loc) for loc in error["loc"] if loc != "body")
ClientField(loc) == JoinDot(SelectSeq(loc, LAMBDA seg : seg # "body"))

\* validation_exception_handler: server_errors, the list given to the log
server_errors(errors) ==
    [i \in 1..Len(errors) |->
        [field |-> JoinDot(errors[i].loc), message |-> errors[i].msg]]

\* validation_exception_handler: errors is exc.errors()
validation_exception_handler(request_id, errors) ==
    JSONResponse(400,
                 [error |-> "Validation Error",
                  message |-> "Request payload validation failed",
                  details |-> [i \in 1..Len(errors) |->
                                  [field |-> ClientField(errors[i].loc),
                                   message |-> _sanitize_error_message(errors[i].msg)]],
                  request_id |-> request_id],
                 [request_id |-> request_id, duration |-> FALSE])

\* slowapi's _rate_limit_exceeded_handler, registered for RateLimitExceeded
rate_limit_exceeded_handler ==
    JSONResponse(429, [error |-> "Rate limit exceeded: 100 per 1 minute"], NoHeaders)

\* RequestTimeoutMiddleware, except asyncio.TimeoutError
timeout_response(request_id) ==
    JSONResponse(504,
                 [error |-> "Gateway Timeout",
                  message |-> "Request processing time exceeded",
                  request_id |-> request_id],
                 [request_id |-> request_id, duration |-> FALSE])

\* PayloadSizeLimitMiddleware, except ValueError
bad_content_length_response(request_id) ==
    JSONResponse(400,
                 [error |-> "Bad Request",
                  message |-> "Invalid Content-Length header",
                  request_id |-> request_id],
                 [request_id |-> request_id, duration |-> FALSE])

\* PayloadSizeLimitMiddleware, content_length > max_size
payload_too_large_response(request_id) ==
    JSONResponse(413,
                 [error |-> "Payload Too Large",
                  message |-> "Request body exceeds maximum allowed size",
                  request_id |-> request_id],
                 [request_id |-> request_id, duration |-> FALSE])


(***************************************************************************)
(* send_msg: the transport.  `exists` is os.path.exists(socket_path) at    *)
(* the time of the call; `fault` is what the operating system answers to   *)
(* connect() and send().                                                   *)
(***************************************************************************)
NoFault == [at |-> "none", errno |-> 0]

Faults ==
    {NoFault,
     [at |-> "connect", errno |-> ECONNREFUSED],
     [at |-> "connect", errno |-> ENOENT],
     [at |-> "send", errno |-> EMSGSIZE]}

\* the return statement of send_msg that is reached
send_path(msg, exists, fault) ==
    IF ~exists THEN "absent"
    ELSE IF fault.at = "connect" THEN "socket.error"
    ELSE IF ~Encodable(msg) THEN "exception"
    ELSE IF fault.at = "send" THEN "socket.error"
    ELSE "sent"

\* an except branch that tells the client the error code and the socket path
socket_error_result_leaky(errno) ==
    [status |-> "error",
     message |-> "[Errno " \o ToString(errno) \o "] " \o SOCKET_PATH]

\* except socket.error as e
socket_error_result(errno) ==
    IF errno = 111 THEN [status |-> "error", message |-> "Backend service unavailable"]
    ELSE IF errno = 90 THEN [status |-> "error", message |-> "Message exceeds size limit"]
    ELSE [status |-> "error", message |-> "Communication error"]

\* the dict send_msg returns
send_msg(msg, exists, fault) ==
    CASE send_path(msg, exists, fault) = "absent" ->
             [status |-> "error", message |-> "Backend service unavailable"]
      [] send_path(msg, exists, fault) = "socket.error" ->
             socket_error_result(fault.errno)
      [] send_path(msg, exists, fault) = "exception" ->
             [status |-> "error", message |-> "An unexpected error occurred"]
      [] send_path(msg, exists, fault) = "sent" ->
             [status |-> "success", message |-> "Event sent to Wazuh"]

\* the socket s of one call when send_msg returns: s.close() is reached on
\* the success path only, every other return leaves s to the garbage collector
socket_at_return(msg, exists, fault) ==
    IF send_path(msg, exists, fault) = "sent" THEN "closed" ELSE "open"

\* the datagrams s.send() hands to the agent during one call of send_msg
datagrams(msg, envHeader, exists, fault) ==
    IF send_path(msg, exists, fault) = "sent"
    THEN <<full_message(msg, envHeader)>>
    ELSE <<>>

\* result["request_id"] = request_id
WithRequestId(result, request_id) ==
    [status |-> result.status, message |-> result.message, request_id |-> request_id]

(***************************************************************************)
(* The requests clients send.                                              *)
(***************************************************************************)
\* get_remote_address(request): the addresses requests come from
Clients == {"10.0.0.1"}

NoHeader == [present |-> FALSE, value |-> ""]
Header(value) == [present |-> TRUE, value |-> value]
NonAsciiKey == "cl\\u00e9"

ApiKeyHeaders ==
    {NoHeader, Header(""), Header(API_KEY), Header("wrong-key"), Header(NonAsciiKey)}

NoLength == [present |-> FALSE, value |-> <<>>]
Length(chars) == [present |-> TRUE, value |-> chars]

OneMiB == <<"1", "0", "4", "8", "5", "7", "6">>
OneMiBPlus1 == <<"1", "0", "4", "8", "5", "7", "7">>
TenMiB == <<"1", "0", "4", "8", "5", "7", "6", "0">>
TenMiBPlus1 == <<"1", "0", "4", "8", "5", "7", "6", "1">>

\* the Content-Length headers sent to a path: none, not a number, and the
\* two values around the path's ceiling
ContentLengthHeaders(path) ==
    {NoLength, Length(<<"a", "b", "c">>)}
        \cup (IF path = <<"/", "i", "n", "g", "e", "s", "t">>
              THEN {Length(OneMiB), Length(OneMiBPlus1)}
              ELSE {Length(TenMiB), Length(TenMiBPlus1)})

RawBasic ==
    [timestamp |-> JStr("2024-01-15T10:30:00Z"), source |-> JStr("srv1"),
     message |-> JStr("hello"), level |-> JAbsent, tags |-> JAbsent,
     metadata |-> JAbsent, decoder |-> JAbsent]

RawCustom ==
    [timestamp |-> JStr("2024-01-15T10:30:01Z"), source |-> JStr("web-01"),
     message |-> JStr("login failed"), level |-> JStr("ERROR"),
     tags |-> JList(<<"auth", "security">>),
     metadata |-> JObj(<<Pair("user", JStr("u1"))>>),
     decoder |-> JStr("custom-decoder")]

RawSurrogate == [RawBasic EXCEPT !.decoder = JStr(LoneSurrogate)]

RawBadLevel == [RawBasic EXCEPT !.level = JStr("VERBOSE")]

IngestBodies == {RawBasic, RawCustom, RawSurrogate, RawBadLevel}
BatchItems == {RawBasic, RawCustom, RawBadLevel}

\* the batches: every list of at most MaxBatch items, and one list of
\* MAX_ITEMS + 1 valid events
BatchBodies ==
    UNION {[1..n -> BatchItems] : n \in 0..MaxBatch}
        \cup {[i \in 1..(MAX_ITEMS + 1) |-> RawBasic]}

NoBody == [k |-> "none"]
EventBody(raw) == [k |-> "event", event |-> raw]
BatchBody(items) == [k |-> "batch", events |-> items]

Paths == {PathIngest, PathBatch, PathHealth, PathLive}

BodiesFor(path) ==
    IF path = PathIngest THEN {EventBody(raw) : raw \in IngestBodies}
    ELSE IF path = PathBatch THEN {BatchBody(items) : items \in BatchBodies}
    ELSE {NoBody}

Request(client, path, api_key, content_length, body) ==
    [client |-> client, path |-> path, api_key |-> api_key,
     content_length |-> content_length, body |-> body]

NoRequest == Request("", <<>>, NoHeader, NoLength, NoBody)

NoResponse == JSONResponse(0, [none |-> TRUE], NoHeaders)

\* os.environ["WAZUH_DECODER_HEADER"]: not set, or set by the operator
EnvHeaders == {"", "Wazuh-Custom"}


(***************************************************************************)
(* Validation errors (exc.errors() of RequestValidationError).             *)
(***************************************************************************)
FieldMessage(field, val) ==
    IF val.k = "absent" THEN "field required"
    ELSE CASE field = "timestamp" -> "Invalid timestamp format"
           [] field = "source" ->
                  IF val.v = "" THEN "ensure this value has at least 1 characters"
                  ELSE "ensure this value has at most 256 characters"
           [] field = "message" ->
                  IF val.v = "" THEN "ensure this value has at least 1 characters"
                  ELSE "ensure this value has at most 65536 characters"
           [] field = "level" -> "Level must be one of: debug, info, warning, error, critical"
           [] field = "tags" ->
                  IF val.k # "list" THEN "Tags must be a list"
                  ELSE "Each tag must be a string with max 64 characters"
           [] field = "metadata" -> "value is not a valid dict"
           [] field = "decoder" -> "ensure this value has at most 128 characters"

FieldValue(raw, field) ==
    CASE field = "timestamp" -> raw.timestamp
      [] field = "source" -> raw.source
      [] field = "message" -> raw.message
      [] field = "level" -> raw.level
      [] field = "tags" -> raw.tags
      [] field = "metadata" -> raw.metadata
      [] field = "decoder" -> raw.decoder

\* the errors of one raw event found under the location prefix
EventErrorList(prefix, raw) ==
    [i \in 1..Len(EventErrors(raw)) |->
        [loc |-> Append(prefix, EventErrors(raw)[i]),
         msg |-> FieldMessage(EventErrors(raw)[i], FieldValue(raw, EventErrors(raw)[i]))]]

\* the errors of items lo..hi, in order (the list index is zero-based)
RECURSIVE ItemErrors(_, _, _)
ItemErrors(items, lo, hi) ==
    IF lo > hi THEN <<>>
    ELSE IF lo = hi
         THEN EventErrorList(<<"body", "events", ToString(lo - 1)>>, items[lo])
    ELSE ItemErrors(items, lo, (lo + hi) \div 2)
             \o ItemErrors(items, ((lo + hi) \div 2) + 1, hi)

BatchErrors(items) ==
    IF ItemErrors(items, 1, Len(items)) # <<>> THEN ItemErrors(items, 1, Len(items))
    ELSE IF Len(items) < MIN_ITEMS
         THEN <<[loc |-> <<"body", "events">>,
                 msg |-> "ensure this value has at least 1 items"]>>
    ELSE IF Len(items) > MAX_ITEMS
         THEN <<[loc |-> <<"body", "events">>,
                 msg |-> "ensure this value has at most 1000 items"]>>
    ELSE <<>>

\* general_exception_handler
\* a catch-all handler that forgets the X-Request-ID header
general_exception_handler_bare(request_id) ==
    JSONResponse(500,
                 [error |-> "Internal Server Error",
                  message |-> "An unexpected error occurred. Please try again later.",
                  request_id |-> request_id],
                 NoHeaders)

\* a catch-all handler that tells the client what was raised
general_exception_handler_leaking(request_id) ==
    JSONResponse(500,
                 [error |-> "TypeError",
                  message |-> "comparing strings with non-ASCII characters is not supported",
                  request_id |-> request_id],
                 [request_id |-> request_id, duration |-> FALSE])

\* general_exception_handler, run by ServerErrorMiddleware
general_exception_handler(request_id) ==
    JSONResponse(500,
                 [error |-> "Internal Server Error",
                  message |-> "An unexpected error occurred. Please try again later.",
                  request_id |-> request_id],
                 [request_id |-> request_id, duration |-> FALSE])

(***************************************************************************)
(* The secret: read_secret and the start-up check of the module.           *)
(***************************************************************************)
\* read_secret("api_key"): a file is [k |-> "file", v |-> contents], a
\* path that is no file or cannot be read is [k |-> "none"]; env is JStr of
\* the variable API_KEY or JAbsent.  None is written "": the function
\* returns no empty string, and "if not API_KEY" treats the two alike
read_secret(docker, local, env) ==
    LET \* str.strip() on the contents the secret files of the model have
        strip(s) ==
            CASE s = "s3cr3t-key\n" -> "s3cr3t-key"
              [] s = " local-key " -> "local-key"
              [] s = " \n" -> ""
              [] OTHER -> s
    IN
    IF docker.k = "file" /\ strip(docker.v) # "" THEN strip(docker.v)
    ELSE IF local.k = "file" /\ strip(local.v) # "" THEN strip(local.v)
    ELSE IF env.k = "str" /\ env.v # "" THEN env.v
    ELSE ""

\* a start-up that does not look at what read_secret returned
startup_ok_unchecked(secret) == TRUE

\* "if not API_KEY: raise RuntimeError(...)" did not raise
startup_ok(secret) == secret # ""

\* the places read_secret looks at, as the operator can have set them up
SecretSources ==
    [docker : {[k |-> "none"], [k |-> "file", v |-> ""], [k |-> "file", v |-> " \n"],
               [k |-> "file", v |-> "s3cr3t-key\n"]},
     local : {[k |-> "none"], [k |-> "file", v |-> " \n"],
              [k |-> "file", v |-> " local-key "]},
     env : {JAbsent, JStr(""), JStr(" "), JStr("env-key")}]

(***************************************************************************)
(* Logging.  A text is a sequence of strings: single characters where a    *)
(* pattern can match (request paths), and whole literals of the program,   *)
(* which hold no match.  The texts of the model are in lower case and      *)
(* write "key=value" without quotes or blanks around the separator.        *)
(***************************************************************************)
\* SensitiveDataFilter.SENSITIVE_PATTERNS, in order: the key, the separator
\* after it, the class of the value, and the replacement.  WordChars is \w
\* and NotDelimiter is [^\s,}\]"\'] for the characters the model's texts are
\* written in
SENSITIVE_PATTERNS ==
    LET WordChars ==
            {"a", "b", "c", "d", "e", "f", "g", "h", "i", "j", "k", "l", "m", "n",
             "o", "p", "q", "r", "s", "t", "u", "v", "w", "x", "y", "z",
             "0", "1", "2", "3", "4", "5", "6", "7", "8", "9", "_"}
        NotDelimiter == WordChars \cup {"/", "=", ":", "-", ".", "+"}
    IN
        <<[key |-> <<"a", "p", "i", "_", "k", "e", "y">>, sep |-> {":", "="},
           value |-> WordChars \cup {"-"}, repl |-> "api_key=[REDACTED]"],
          [key |-> <<"x", "-", "a", "p", "i", "-", "k", "e", "y">>, sep |-> {":", "="},
           value |-> WordChars \cup {"-"}, repl |-> "X-API-Key=[REDACTED]"],
          [key |-> <<"a", "u", "t", "h", "o", "r", "i", "z", "a", "t", "i", "o", "n">>,
           sep |-> {":", "="},
           value |-> WordChars \cup {" ", "-", "."}, repl |-> "authorization=[REDACTED]"],
          [key |-> <<"b", "e", "a", "r", "e", "r">>, sep |-> {" "},
           value |-> WordChars \cup {"-", "."}, repl |-> "Bearer [REDACTED]"],
          [key |-> <<"p", "a", "s", "s", "w", "o", "r", "d">>, sep |-> {":", "="},
           value |-> NotDelimiter, repl |-> "password=[REDACTED]"],
          [key |-> <<"s", "e", "c", "r", "e", "t">>, sep |-> {":", "="},
           value |-> NotDelimiter, repl |-> "secret=[REDACTED]"],
          [key |-> <<"p", "a", "s", "s", "w", "d">>, sep |-> {":", "="},
           value |-> NotDelimiter, repl |-> "passwd=[REDACTED]"],
          [key |-> <<"t", "o", "k", "e", "n">>, sep |-> {":", "="},
           value |-> WordChars \cup {"-", "."}, repl |-> "token=[REDACTED]"],
          [key |-> <<"a", "c", "c", "e", "s", "s", "_", "t", "o", "k", "e", "n">>,
           sep |-> {":", "="},
           value |-> WordChars \cup {"-", "."}, repl |-> "access_token=[REDACTED]"],
          [key |-> <<"r", "e", "f", "r", "e", "s", "h", "_", "t", "o", "k", "e", "n">>,
           sep |-> {":", "="},
           value |-> WordChars \cup {"-", "."}, repl |-> "refresh_token=[REDACTED]"],
          [key |-> <<"a", "w", "s", "_", "s", "e", "c", "r", "e", "t">>, sep |-> {":", "="},
           value |-> WordChars \cup {"-", "/", "+"}, repl |-> "aws_secret=[REDACTED]"],
          [key |-> <<"a", "w", "s", "_", "a", "c", "c", "e", "s", "s", "_", "k", "e", "y">>,
           sep |-> {":", "="},
           value |-> WordChars, repl |-> "aws_access_key=[REDACTED]"]>>

\* SensitiveDataFilter._redact_sensitive, mask_ips being off: every pattern
\* in turn replaces its matches, from left to right
_redact_sensitive(text) ==
    LET RECURSIVE RunLength(_, _)
        \* the length of the longest prefix of t made of characters of class
        RunLength(class, t) ==
            IF t = <<>> \/ Head(t) \notin class THEN 0
            ELSE 1 + RunLength(class, Tail(t))
        \* the length of the match of pattern at the start of t, 0 without one
        MatchLength(pattern, t) ==
            LET k == Len(pattern.key)
            IN  IF /\ Len(t) >= k + 2
                   /\ SubSeq(t, 1, k) = pattern.key
                   /\ t[k + 1] \in pattern.sep
                   /\ t[k + 2] \in pattern.value
                THEN k + 1 + RunLength(pattern.value, SubSeq(t, k + 2, Len(t)))
                ELSE 0
        RECURSIVE pattern_sub(_, _)
        \* pattern.sub(replacement, t)
        pattern_sub(pattern, t) ==
            IF t = <<>> THEN <<>>
            ELSE IF MatchLength(pattern, t) > 0
                 THEN <<pattern.repl>>
                          \o pattern_sub(pattern,
                                         SubSeq(t, MatchLength(pattern, t) + 1, Len(t)))
                 ELSE <<Head(t)>> \o pattern_sub(pattern, Tail(t))
        RECURSIVE redact_from(_, _)
        \* "for pattern, replacement in self.SENSITIVE_PATTERNS" from the i-th on:
        \* text = pattern.sub(replacement, text), the text of the next pattern
        redact_from(i, t) ==
            IF i > Len(SENSITIVE_PATTERNS) THEN t
            ELSE CHOOSE result \in {redact_from(i + 1, substituted) :
                                       substituted \in
                                           {pattern_sub(SENSITIVE_PATTERNS[i], t)}} : TRUE
    IN  redact_from(1, text)

\* a logging.LogRecord: extra holds the attributes the caller set with
\* extra=; exc_info is <<>> or holds the exception that was being handled
LogRecord(levelname, msg, args, exc_info, extra) ==
    [levelname |-> levelname, msg |-> msg, args |-> args,
     exc_info |-> exc_info, extra |-> extra]

\* SensitiveDataFilter.filter: the message and the string arguments
SensitiveDataFilter_filter(record) ==
    [record EXCEPT !.msg = _redact_sensitive(@),
                   !.args = [i \in 1..Len(@) |-> _redact_sensitive(@[i])]]

\* JSONFormatter.format: the dict that is dumped, the timestamp left out;
\* getMessage() is msg % args for a msg that ends in one %s per argument
JSONFormatter_format(record) ==
    LET RECURSIVE Interpolate(_, _)
        Interpolate(msg, args) ==
            IF args = <<>> THEN msg
            ELSE Interpolate(msg \o <<" ">> \o Head(args), Tail(args))
        ContextKeys ==
            {"request_id", "client_ip", "method", "endpoint", "status_code", "duration_ms"}
        log_data ==
            [level |-> record.levelname,
             logger |-> "wazuh-ingest-api",
             message |-> Interpolate(record.msg, record.args)]
        context ==
            [key \in DOMAIN record.extra \cap ContextKeys |-> record.extra[key]]
        exception ==
            IF record.exc_info = <<>> THEN <<>>
            ELSE [exception |-> record.exc_info[1]]
        extra_fields ==
            IF "extra_fields" \in DOMAIN record.extra
            THEN record.extra.extra_fields ELSE <<>>
    IN  extra_fields @@ exception @@ context @@ log_data

\* console_handler.handle: the filter, then the formatter; what is written
\* to sys.stdout
console_handler(record) == JSONFormatter_format(SensitiveDataFilter_filter(record))

\* what one call of send_msg writes to the log: logger.error(...) before
\* each of its three error returns, nothing on success
send_msg_log(request_id, msg, exists, fault) ==
    CASE send_path(msg, exists, fault) = "absent" ->
             <<console_handler(LogRecord(
                   "ERROR", <<"Wazuh socket not available">>, <<>>, <<>>,
                   [request_id |-> request_id, socket_path |-> "[internal]"]))>>
      [] send_path(msg, exists, fault) = "socket.error" ->
             <<console_handler(LogRecord(
                   "ERROR", <<"Socket communication error">>, <<>>, <<>>,
                   [request_id |-> request_id, error_code |-> fault.errno,
                    error_type |-> "socket_error"]))>>
      [] send_path(msg, exists, fault) = "exception" ->
             <<console_handler(LogRecord(
                   "ERROR", <<"Unexpected error in message delivery">>, <<>>,
                   <<[type |-> "UnicodeEncodeError",
                      message |-> <<"'utf-8' codec can't encode character: ",
                                    "surrogates not allowed">>]>>,
                   [request_id |-> request_id,
                    exception_type |-> "UnicodeEncodeError"]))>>
      [] send_path(msg, exists, fault) = "sent" -> <<>>

(***************************************************************************)
(* State.                                                                  *)
(***************************************************************************)
VARIABLES
    pc,            \* pc[r]: the step request slot r executes next
    req,           \* req[r]: the request as the client sent it
    rid,           \* rid[r]: request.state.request_id, 0 while not set
    trace,         \* trace[r]: the stages entered and left, in order
    bodyRead,      \* bodyRead[r]: the request body has been received
    events,        \* events[r]: the validated events (event / batch.events)
    idx,           \* idx[r]: the number of loop iterations of ingest_batch done
    results,       \* results[r]: ingest_batch's results list
    error_count,   \* error_count[r]: ingest_batch's error_count
    resp,          \* resp[r]: the response on its way out
    calls,         \* calls[r]: the calls of send_msg made for r, in order
    wire,          \* wire[r]: the datagrams the agent received for r, in order
    log,           \* log[r]: the records written to sys.stdout for r, in order
    hits,          \* hits[c]: limiter counter of client c in the current window
    uuids,         \* the number of uuid4() values drawn by RequestIDMiddleware
    accepted,      \* the number of requests the server has accepted
    envHeader,     \* os.environ WAZUH_DECODER_HEADER, "" when not set
    credential     \* the module global API_KEY; "" is None

perRequest == <<req, rid, trace, bodyRead, events, idx, results, error_count, resp,
               calls, wire, log>>
loopVars == <<events, idx, results, error_count>>
effects == <<calls, wire, log>>
shared == <<hits, uuids, accepted, envHeader, credential>>
vars == <<pc, req, rid, trace, bodyRead, events, idx, results, error_count, resp,
          calls, wire, log, hits, uuids, accepted, envHeader, credential>>

Reqs == 1..MaxInFlight

\* the steps between which the task awaits: the timeout can fire, and other
\* tasks can run, only there
AwaitPoints == {"SlowAPI", "PayloadSize", "ReceiveBody", "PayloadSizeOut", "SlowAPIOut"}

\* the steps FastAPI runs without awaiting once the body is there
SyncSteps == {"Auth", "Validate", "Limit", "Ingest", "Batch", "Health", "Live",
              "Ready", "NotFound", "Blocked"}

\* a server that runs every request in a thread of its own
Scheduled_threaded(r) == TRUE

\* the event loop runs one task at a time
Scheduled(r) == \A q \in Reqs \ {r} : pc[q] \notin SyncSteps

Init ==
    /\ pc = [r \in Reqs |-> "idle"]
    /\ req = [r \in Reqs |-> NoRequest]
    /\ rid = [r \in Reqs |-> 0]
    /\ trace = [r \in Reqs |-> <<>>]
    /\ bodyRead = [r \in Reqs |-> FALSE]
    /\ events = [r \in Reqs |-> <<>>]
    /\ idx = [r \in Reqs |-> 0]
    /\ results = [r \in Reqs |-> <<>>]
    /\ error_count = [r \in Reqs |-> 0]
    /\ resp = [r \in Reqs |-> NoResponse]
    /\ calls = [r \in Reqs |-> <<>>]
    /\ wire = [r \in Reqs |-> <<>>]
    /\ log = [r \in Reqs |-> <<>>]
    \* the window of a client may already hold RATE_LIMIT - 1 hits
    /\ \E busy \in SUBSET Clients :
           hits = [c \in Clients |-> IF c \in busy THEN RATE_LIMIT - 1 ELSE 0]
    /\ uuids = 0
    /\ accepted = 0
    /\ envHeader \in EnvHeaders
    /\ credential = API_KEY


(***************************************************************************)
(* The middleware chain, inbound.                                          *)
(***************************************************************************)
Enter(r, stage) == trace' = [trace EXCEPT ![r] = Append(@, stage)]

\* log_with_context(level, message, request, **extra_fields): the record that
\* logger.<level>(message, extra=extra) makes; a request of the model has the
\* method of its route
log_with_context(level, message, r, extra_fields) ==
    LogRecord(CASE level = "info" -> "INFO"
                [] level = "warning" -> "WARNING"
                [] level = "error" -> "ERROR",
              message, <<>>, <<>>,
              extra_fields @@ [request_id |-> rid[r],
                               client_ip |-> req[r].client,
                               method |-> IF req[r].path \in BodyRoutes THEN "POST" ELSE "GET",
                               endpoint |-> req[r].path])

\* the record http_exception_handler logs before it answers
http_exception_log(r, status_code) ==
    log_with_context(IF status_code < 500 THEN "warning" ELSE "error",
                     <<"HTTP ", ToString(status_code), " error">>, r,
                     [status_code |-> status_code])

\* the server accepts the head of a request (its body follows when it is
\* awaited); one request is in flight at a time, in the first slot
Arrive(r) ==
    /\ \A q \in Reqs : pc[q] = "idle"
    /\ r = 1
    /\ accepted < MaxRequests
    /\ \E client \in Clients, path \in Paths, api_key \in ApiKeyHeaders :
          \E content_length \in ContentLengthHeaders(path) :
              req' = [req EXCEPT ![r] =
                         Request(client, path, api_key, content_length, NoBody)]
    /\ pc' = [pc EXCEPT ![r] = "RequestID"]
    /\ accepted' = accepted + 1
    /\ UNCHANGED <<rid, trace, bodyRead, loopVars, resp, effects,
                   hits, uuids, envHeader, credential>>

\* RequestIDMiddleware.dispatch up to call_next
RequestIDDispatch(r) ==
    /\ pc[r] = "RequestID"
    /\ Scheduled(r)
    /\ uuids' = uuids + 1
    /\ rid' = [rid EXCEPT ![r] = uuids + 1]
    /\ Enter(r, "RequestID")
    /\ pc' = [pc EXCEPT ![r] = "Timeout"]
    /\ UNCHANGED <<req, bodyRead, loopVars, resp, effects,
                   hits, accepted, envHeader, credential>>

\* RequestTimeoutMiddleware.dispatch up to asyncio.wait_for(call_next(request))
TimeoutDispatch(r) ==
    /\ pc[r] = "Timeout"
    /\ Scheduled(r)
    /\ Enter(r, "Timeout")
    /\ pc' = [pc EXCEPT ![r] = "SlowAPI"]
    /\ UNCHANGED <<req, rid, bodyRead, loopVars, resp, effects, shared>>

\* SlowAPIMiddleware.dispatch: the limiter has no default or application
\* limits, and a route limit is checked by the route's own decorator
\* a middleware that counts every /batch request against its address
SlowAPIDispatch_counting(r) ==
    /\ pc[r] = "SlowAPI"
    /\ Scheduled(r)
    /\ Enter(r, "RateLimit")
    /\ pc' = [pc EXCEPT ![r] = "PayloadSize"]
    /\ hits' = IF req[r].path = PathBatch
               THEN [hits EXCEPT ![req[r].client] =
                        IF @ <= RATE_LIMIT THEN @ + 1 ELSE @]
               ELSE hits
    /\ UNCHANGED <<req, rid, bodyRead, loopVars, resp, effects,
                   uuids, accepted, envHeader, credential>>

SlowAPIDispatch(r) ==
    /\ pc[r] = "SlowAPI"
    /\ Scheduled(r)
    /\ Enter(r, "RateLimit")
    /\ pc' = [pc EXCEPT ![r] = "PayloadSize"]
    /\ UNCHANGED <<req, rid, bodyRead, loopVars, resp, effects, shared>>

\* a stage that also rejects a length equal to the ceiling
payload_verdict_inclusive(path, content_length) ==
    IF content_length.present /\ content_length.value # <<>>
    THEN IF ~IntParses(content_length.value) THEN "invalid"
         ELSE IF IntOf(content_length.value) >= max_size(path) THEN "large"
         ELSE "pass"
    ELSE "pass"

\* what PayloadSizeLimitMiddleware.dispatch decides: "pass", "invalid" or "large"
payload_verdict(path, content_length) ==
    IF content_length.present /\ content_length.value # <<>>
    THEN IF ~IntParses(content_length.value) THEN "invalid"
         ELSE IF IntOf(content_length.value) > max_size(path) THEN "large"
         ELSE "pass"
    ELSE "pass"

\* PayloadSizeLimitMiddleware.dispatch up to call_next, or to its own return
PayloadSizeDispatch(r) ==
    /\ pc[r] = "PayloadSize"
    /\ Scheduled(r)
    /\ LET verdict == payload_verdict(req[r].path, req[r].content_length)
       IN  IF verdict = "pass"
           THEN /\ Enter(r, "PayloadSizeLimit")
                /\ pc' = [pc EXCEPT ![r] = "ReceiveBody"]
                /\ UNCHANGED <<resp, log>>
           ELSE /\ trace' = [trace EXCEPT ![r] =
                                @ \o <<"PayloadSizeLimit", "PayloadSizeLimit:out">>]
                /\ resp' = [resp EXCEPT ![r] =
                               IF verdict = "invalid"
                               THEN bad_content_length_response(rid[r])
                               ELSE payload_too_large_response(rid[r])]
                /\ log' = [log EXCEPT ![r] = Append(@, console_handler(
                               IF verdict = "invalid"
                               THEN log_with_context(
                                        "warning",
                                        <<"Invalid Content-Length header received">>,
                                        r, <<>>)
                               ELSE log_with_context(
                                        "warning", <<"Payload size limit exceeded">>, r,
                                        [content_length |-> IntOf(req[r].content_length.value),
                                         max_size |-> max_size(req[r].path),
                                         endpoint_type |->
                                             IF Contains(req[r].path, PathBatch)
                                             THEN "batch"
                                             ELSE IF req[r].path = PathRoot
                                                     \/ Contains(req[r].path, PathIngest)
                                                  THEN "ingest" ELSE "default"])))]
                /\ pc' = [pc EXCEPT ![r] = "SlowAPIOut"]
    /\ UNCHANGED <<req, rid, bodyRead, loopVars, calls, wire, shared>>

\* the router matches the route and FastAPI awaits the body of a route that
\* takes one
Receive(r, bodies) ==
    /\ pc[r] = "ReceiveBody"
    /\ Scheduled(r)
    /\ bodyRead' = [bodyRead EXCEPT ![r] = req[r].path \in BodyRoutes]
    /\ \E body \in bodies :
           req' = [req EXCEPT ![r].body = body]
    /\ pc' = [pc EXCEPT ![r] =
                 IF req[r].path \in AuthenticatedRoutes THEN "Auth"
                 ELSE IF req[r].path = PathLive THEN "Live"
                 ELSE IF req[r].path = PathReady THEN "Ready"
                 ELSE "NotFound"]
    /\ UNCHANGED <<rid, trace, loopVars, resp, effects, shared>>

\* the bodies requests are sent with
ReceiveBody(r) == Receive(r, BodiesFor(req[r].path))

(***************************************************************************)
(* get_api_key, body validation and the route's rate limit.                *)
(***************************************************************************)
\* secrets.compare_digest on str arguments: TypeError unless both are ASCII
compare_digest_raises(a, b) == a = NonAsciiKey \/ b = NonAsciiKey

compare_digest(a, b) == a = b

\* what get_api_key does: "ok", "missing", "invalid" or "raise"
api_key_verdict(api_key_header) ==
    IF ~api_key_header.present \/ api_key_header.value = "" THEN "missing"
    ELSE IF compare_digest_raises(api_key_header.value, credential) THEN "raise"
    ELSE IF ~compare_digest(api_key_header.value, credential) THEN "invalid"
    ELSE "ok"

\* the dependency get_api_key; an HTTPException goes to http_exception_handler,
\* any other exception to general_exception_handler in ServerErrorMiddleware,
\* outside every middleware of the chain
Authenticate(r) ==
    /\ pc[r] = "Auth"
    /\ LET verdict == api_key_verdict(req[r].api_key)
       IN  CASE verdict = "ok" ->
                    /\ Enter(r, "Auth")
                    /\ pc' = [pc EXCEPT ![r] =
                                 IF req[r].path \in BodyRoutes THEN "Validate" ELSE "Health"]
                    /\ UNCHANGED <<resp, log>>
             [] verdict = "missing" ->
                    /\ Enter(r, "Auth")
                    /\ resp' = [resp EXCEPT ![r] = http_exception_handler(
                                   rid[r], 401, <<Pair("error", JStr("Authentication required"))>>)]
                    /\ log' = [log EXCEPT ![r] = @ \o
                                  <<console_handler(log_with_context(
                                        "warning",
                                        <<"API request rejected: Missing API key">>, r, <<>>)),
                                    console_handler(http_exception_log(r, 401))>>]
                    /\ pc' = [pc EXCEPT ![r] = "PayloadSizeOut"]
             [] verdict = "invalid" ->
                    /\ Enter(r, "Auth")
                    /\ resp' = [resp EXCEPT ![r] = http_exception_handler(
                                   rid[r], 401, <<Pair("error", JStr("Invalid credentials"))>>)]
                    /\ log' = [log EXCEPT ![r] = @ \o
                                  <<console_handler(log_with_context(
                                        "warning",
                                        <<"API request rejected: Invalid API key">>, r, <<>>)),
                                    console_handler(http_exception_log(r, 401))>>]
                    /\ pc' = [pc EXCEPT ![r] = "PayloadSizeOut"]
             [] verdict = "raise" ->
                    /\ trace' = [trace EXCEPT ![r] = @ \o <<"Auth", "ServerError">>]
                    /\ resp' = [resp EXCEPT ![r] = general_exception_handler(rid[r])]
                    \* logger.error(..., exc_info=True) of general_exception_handler
                    /\ log' = [log EXCEPT ![r] = Append(@, console_handler(
                                  LET message ==
                                          <<"comparing strings with non-ASCII ",
                                            "characters is not supported">>
                                  IN  [log_with_context(
                                           "error", <<"Unhandled exception occurred">>, r,
                                           [exception_type |-> "TypeError",
                                            exception_message |-> message])
                                       EXCEPT !.exc_info =
                                           <<[type |-> "TypeError",
                                              message |-> message]>>]))]
                    /\ pc' = [pc EXCEPT ![r] = "done"]
    /\ UNCHANGED <<req, rid, bodyRead, loopVars, calls, wire, shared>>

\* exc.errors() for the body of a request, <<>> when the body validates
body_errors(path, body) ==
    IF path = PathIngest
    THEN EventErrorList(<<"body">>, body.event)
    ELSE BatchErrors(body.events)

\* whether the body validates against the handler's model
body_valid(path, body) ==
    IF path = PathIngest THEN EventValid(body.event) ELSE BatchValid(body.events)

\* the validated events handed to the handler
validated(path, body) ==
    IF path = PathIngest
    THEN <<IngestEvent(body.event)>>
    ELSE [i \in 1..Len(body.events) |-> IngestEvent(body.events[i])]

\* FastAPI validates the body against the handler's pydantic model; a
\* RequestValidationError goes to validation_exception_handler
Validate(r) ==
    /\ pc[r] = "Validate"
    /\ Enter(r, "Validate")
    /\ LET errors == body_errors(req[r].path, req[r].body)
       IN  IF body_valid(req[r].path, req[r].body)
           THEN /\ events' = [events EXCEPT ![r] = validated(req[r].path, req[r].body)]
                /\ pc' = [pc EXCEPT ![r] =
                             IF req[r].path = PathBatch THEN "Limit" ELSE "Ingest"]
                /\ UNCHANGED <<resp, log>>
           ELSE /\ resp' = [resp EXCEPT ![r] = validation_exception_handler(rid[r], errors)]
                /\ log' = [log EXCEPT ![r] = Append(@, console_handler(
                               log_with_context(
                                   "warning", <<"Request validation failed">>, r,
                                   [error_count |-> Len(server_errors(errors)),
                                    errors |-> server_errors(errors)])))]
                /\ pc' = [pc EXCEPT ![r] = "PayloadSizeOut"]
                /\ UNCHANGED events
    /\ UNCHANGED <<req, rid, bodyRead, idx, results, error_count, calls, wire, shared>>
\* a limiter that does not count the requests it lets through
hit_uncounted(count) == count

\* the counter after one more hit
hit(count) == IF count <= RATE_LIMIT THEN count + 1 ELSE count

\* @limiter.limit("100/minute") around ingest_batch, keyed by
\* get_remote_address: the hit is counted, then compared with the limit
LimiterCheck(r) ==
    /\ pc[r] = "Limit"
    /\ Enter(r, "Limit")
    /\ hits' = [hits EXCEPT ![req[r].client] = hit(@)]
    /\ IF hit(hits[req[r].client]) <= RATE_LIMIT
       THEN /\ pc' = [pc EXCEPT ![r] = "Batch"]
            /\ UNCHANGED resp
       ELSE /\ resp' = [resp EXCEPT ![r] = rate_limit_exceeded_handler]
            /\ pc' = [pc EXCEPT ![r] = "PayloadSizeOut"]
    /\ UNCHANGED <<req, rid, bodyRead, loopVars, effects,
                   uuids, accepted, envHeader, credential>>


(***************************************************************************)
(* The handlers.                                                           *)
(***************************************************************************)
\* the answers the operating system can give while the socket file exists
\* or not: without the file send_msg returns before it connects
FaultsWhen(exists) == IF exists THEN Faults ELSE {NoFault}

\* one call send_msg(event_data, request_id) for the i-th event of r
Call(r, i, exists, fault) ==
    [index |-> i, msg |-> EventDict(events[r][i]), exists |-> exists, fault |-> fault,
     result |-> send_msg(EventDict(events[r][i]), exists, fault),
     socket |-> socket_at_return(EventDict(events[r][i]), exists, fault)]

Deliver(r, i, exists, fault) ==
    /\ calls' = [calls EXCEPT ![r] = Append(@, Call(r, i, exists, fault))]
    /\ wire' = [wire EXCEPT ![r] =
                   @ \o datagrams(EventDict(events[r][i]), envHeader, exists, fault)]

\* ingest_event
ingest_event(r) ==
    /\ pc[r] = "Ingest"
    /\ Enter(r, "Handler")
    /\ \E exists \in BOOLEAN : \E fault \in FaultsWhen(exists) :
           /\ Deliver(r, 1, exists, fault)
           /\ resp' = [resp EXCEPT ![r] =
                          Returned(WithRequestId(Call(r, 1, exists, fault).result, rid[r]))]
           /\ log' = [log EXCEPT ![r] =
                         @ \o send_msg_log(rid[r], EventDict(events[r][1]), exists, fault)
                           \o (IF Call(r, 1, exists, fault).result.status = "success"
                               THEN <<console_handler(log_with_context(
                                          "info", <<"Event ingested successfully">>, r,
                                          [source |-> events[r][1].source]))>>
                               ELSE <<>>)]
    /\ pc' = [pc EXCEPT ![r] = "PayloadSizeOut"]
    /\ UNCHANGED <<req, rid, bodyRead, loopVars, shared>>

\* a loop that counts every result as an error
next_error_count_every(count, res) == count + 1

\* if res.get("status") == "error": error_count += 1
next_error_count(count, res) ==
    IF res.status = "error" THEN count + 1 ELSE count

\* a loop that stops after its first iteration
loop_exhausted_after_one(done, batch_events) == done >= 1

\* "for event in batch.events" is exhausted after done iterations
loop_exhausted(done, batch_events) == done >= Len(batch_events)

\* ingest_batch: one iteration of "for event in batch.events"
ingest_batch_loop(r) ==
    /\ pc[r] = "Batch"
    /\ ~loop_exhausted(idx[r], events[r])
    /\ trace' = [trace EXCEPT ![r] = IF idx[r] = 0 THEN Append(@, "Handler") ELSE @]
    /\ \E exists \in BOOLEAN : \E fault \in FaultsWhen(exists) :
           /\ Deliver(r, idx[r] + 1, exists, fault)
           /\ results' = [results EXCEPT ![r] =
                              Append(@, Call(r, idx[r] + 1, exists, fault).result)]
           /\ error_count' = [error_count EXCEPT ![r] =
                                 next_error_count(@, Call(r, idx[r] + 1, exists, fault).result)]
           /\ log' = [log EXCEPT ![r] =
                         @ \o send_msg_log(rid[r], EventDict(events[r][idx[r] + 1]),
                                           exists, fault)]
    /\ idx' = [idx EXCEPT ![r] = @ + 1]
    /\ UNCHANGED <<pc, req, rid, bodyRead, events, resp, shared>>

\* ingest_batch: after the loop
ingest_batch_return(r) ==
    /\ pc[r] = "Batch"
    /\ loop_exhausted(idx[r], events[r])
    /\ resp' = [resp EXCEPT ![r] =
                   Returned([status |-> "batch_processed",
                             total |-> Len(events[r]),
                             errors |-> error_count[r],
                             details |-> results[r],
                             request_id |-> rid[r]])]
    /\ log' = [log EXCEPT ![r] = Append(@, console_handler(
                   log_with_context("info", <<"Batch processing completed">>, r,
                                    [total_events |-> Len(events[r]),
                                     error_count |-> error_count[r],
                                     success_count |-> Len(events[r]) - error_count[r]])))]
    /\ pc' = [pc EXCEPT ![r] = "PayloadSizeOut"]
    /\ UNCHANGED <<req, rid, trace, bodyRead, loopVars, calls, wire, shared>>

\* check_wazuh_socket
check_wazuh_socket(exists, connect_ok) == exists /\ connect_ok

\* health_check; uptime_seconds and timestamp, which no stage reads, are left out
health_check(r) ==
    /\ pc[r] = "Health"
    /\ Enter(r, "Handler")
    /\ \E exists \in BOOLEAN, connect_ok \in BOOLEAN :
           /\ resp' = [resp EXCEPT ![r] =
                          Returned([status |-> IF check_wazuh_socket(exists, connect_ok)
                                               THEN "healthy" ELSE "unhealthy",
                                    service |-> "wazuh-api",
                                    version |-> SERVICE_VERSION,
                                    wazuh_socket |-> IF check_wazuh_socket(exists, connect_ok)
                                                     THEN "connected" ELSE "disconnected",
                                    request_id |-> rid[r]])]
           /\ log' = [log EXCEPT ![r] = Append(@, console_handler(
                          IF check_wazuh_socket(exists, connect_ok)
                          THEN log_with_context("info", <<"Health check: healthy">>, r, <<>>)
                          ELSE log_with_context(
                                   "warning",
                                   <<"Health check: unhealthy - socket disconnected">>,
                                   r, <<>>)))]
    /\ pc' = [pc EXCEPT ![r] = "PayloadSizeOut"]
    /\ UNCHANGED <<req, rid, bodyRead, loopVars, calls, wire, shared>>

\* liveness_probe
liveness_probe(r) ==
    /\ pc[r] = "Live"
    /\ Enter(r, "Handler")
    /\ resp' = [resp EXCEPT ![r] = Returned([status |-> "alive"])]
    /\ pc' = [pc EXCEPT ![r] = "PayloadSizeOut"]
    /\ UNCHANGED <<req, rid, bodyRead, loopVars, effects, shared>>

\* readiness_probe: the HTTPException goes to http_exception_handler
readiness_probe(r) ==
    /\ pc[r] = "Ready"
    /\ Enter(r, "Handler")
    /\ \E exists \in BOOLEAN, connect_ok \in BOOLEAN :
           /\ resp' = [resp EXCEPT ![r] =
                          IF check_wazuh_socket(exists, connect_ok)
                          THEN Returned([status |-> "ready", wazuh_socket |-> "connected"])
                          ELSE http_exception_handler(rid[r], 503,
                                   <<Pair("status", JStr("not_ready")),
                                     Pair("wazuh_socket", JStr("disconnected")),
                                     Pair("message",
                                          JStr("Service is not ready to accept traffic"))>>)]
           /\ log' = [log EXCEPT ![r] =
                          IF check_wazuh_socket(exists, connect_ok) THEN @
                          ELSE Append(@, console_handler(http_exception_log(r, 503)))]
    /\ pc' = [pc EXCEPT ![r] = "PayloadSizeOut"]
    /\ UNCHANGED <<req, rid, bodyRead, loopVars, calls, wire, shared>>

\* no route matches the path: the router raises Starlette's own HTTPException,
\* which is not the class http_exception_handler is registered for, so the
\* application's default handler answers
not_found(r) ==
    /\ pc[r] = "NotFound"
    /\ Enter(r, "Router")
    /\ resp' = [resp EXCEPT ![r] = JSONResponse(404, [detail |-> "Not Found"], NoHeaders)]
    /\ pc' = [pc EXCEPT ![r] = "PayloadSizeOut"]
    /\ UNCHANGED <<req, rid, bodyRead, loopVars, effects, shared>>

(***************************************************************************)
(* The middleware chain, outbound.                                         *)
(***************************************************************************)
\* a chain in which the response leaves without passing SlowAPIMiddleware
PayloadSizeReturn_skipping(r) ==
    /\ pc[r] = "PayloadSizeOut"
    /\ Scheduled(r)
    /\ Enter(r, "PayloadSizeLimit:out")
    /\ pc' = [pc EXCEPT ![r] = "TimeoutOut"]
    /\ UNCHANGED <<req, rid, bodyRead, loopVars, resp, effects, shared>>

\* PayloadSizeLimitMiddleware: return await call_next(request)
PayloadSizeReturn(r) ==
    /\ pc[r] = "PayloadSizeOut"
    /\ Scheduled(r)
    /\ Enter(r, "PayloadSizeLimit:out")
    /\ pc' = [pc EXCEPT ![r] = "SlowAPIOut"]
    /\ UNCHANGED <<req, rid, bodyRead, loopVars, resp, effects, shared>>

\* SlowAPIMiddleware: the response of call_next, headers_enabled being off
SlowAPIReturn(r) ==
    /\ pc[r] = "SlowAPIOut"
    /\ Scheduled(r)
    /\ Enter(r, "RateLimit:out")
    /\ pc' = [pc EXCEPT ![r] = "TimeoutOut"]
    /\ UNCHANGED <<req, rid, bodyRead, loopVars, resp, effects, shared>>

\* a middleware that enforces the slow-request threshold: the slow response
\* is replaced by the answer of the timeout
TimeoutReturn_enforcing(r, duration_ms) ==
    /\ pc[r] = "TimeoutOut"
    /\ Scheduled(r)
    /\ Enter(r, "Timeout:out")
    /\ log' = [log EXCEPT ![r] =
                  IF duration_ms > SLOW_REQUEST_THRESHOLD * 1000
                  THEN Append(@, console_handler(
                           log_with_context(
                               "warning", <<"Slow request detected">>, r,
                               [duration_ms |-> duration_ms,
                                threshold_ms |-> SLOW_REQUEST_THRESHOLD * 1000])))
                  ELSE @]
    /\ resp' = [resp EXCEPT ![r] =
                   IF duration_ms > SLOW_REQUEST_THRESHOLD * 1000
                   THEN timeout_response(rid[r])
                   ELSE [@ EXCEPT !.headers.duration = TRUE]]
    /\ pc' = [pc EXCEPT ![r] = "RequestIDOut"]
    /\ UNCHANGED <<req, rid, bodyRead, loopVars, calls, wire, shared>>

\* RequestTimeoutMiddleware: wait_for returned the response in time; the
\* duration is measured in whole milliseconds
TimeoutReturn(r, duration_ms) ==
    /\ pc[r] = "TimeoutOut"
    /\ Scheduled(r)
    /\ Enter(r, "Timeout:out")
    /\ log' = [log EXCEPT ![r] =
                  IF duration_ms > SLOW_REQUEST_THRESHOLD * 1000
                  THEN Append(@, console_handler(
                           log_with_context(
                               "warning", <<"Slow request detected">>, r,
                               [duration_ms |-> duration_ms,
                                threshold_ms |-> SLOW_REQUEST_THRESHOLD * 1000])))
                  ELSE @]
    /\ resp' = [resp EXCEPT ![r].headers.duration = TRUE]
    /\ pc' = [pc EXCEPT ![r] = "RequestIDOut"]
    /\ UNCHANGED <<req, rid, bodyRead, loopVars, calls, wire, shared>>

\* a timeout that answers 504 but leaves the inner task running
TimeoutExpire_detached(r) ==
    /\ pc[r] \in AwaitPoints
    /\ Scheduled(r)
    /\ ~(\E i \in 1..Len(trace[r]) : trace[r][i] = "Timeout:expired")
    /\ trace' = [trace EXCEPT ![r] = @ \o <<"Timeout:expired", "Timeout:out">>]
    /\ resp' = [resp EXCEPT ![r] = timeout_response(rid[r])]
    /\ log' = [log EXCEPT ![r] = Append(@, console_handler(
                   log_with_context("error", <<"Request timeout exceeded">>, r,
                                    [duration_ms |-> REQUEST_TIMEOUT_SECONDS * 1000,
                                     timeout_seconds |-> REQUEST_TIMEOUT_SECONDS])))]
    /\ UNCHANGED <<pc, req, rid, bodyRead, loopVars, calls, wire, shared>>

\* RequestTimeoutMiddleware: wait_for raised asyncio.TimeoutError and
\* cancelled the inner task
TimeoutExpire(r) ==
    /\ pc[r] \in AwaitPoints
    /\ Scheduled(r)
    /\ trace' = [trace EXCEPT ![r] = @ \o <<"Timeout:expired", "Timeout:out">>]
    /\ resp' = [resp EXCEPT ![r] = timeout_response(rid[r])]
    /\ log' = [log EXCEPT ![r] = Append(@, console_handler(
                   log_with_context("error", <<"Request timeout exceeded">>, r,
                                    [duration_ms |-> REQUEST_TIMEOUT_SECONDS * 1000,
                                     timeout_seconds |-> REQUEST_TIMEOUT_SECONDS])))]
    /\ pc' = [pc EXCEPT ![r] = "RequestIDOut"]
    /\ UNCHANGED <<req, rid, bodyRead, loopVars, calls, wire, shared>>

\* RequestIDMiddleware: response.headers["X-Request-ID"] = request_id
RequestIDReturn(r) ==
    /\ pc[r] = "RequestIDOut"
    /\ Scheduled(r)
    /\ Enter(r, "RequestID:out")
    /\ resp' = [resp EXCEPT ![r].headers.request_id = rid[r]]
    /\ pc' = [pc EXCEPT ![r] = "done"]
    /\ UNCHANGED <<req, rid, bodyRead, loopVars, effects, shared>>

\* the response has been sent; the task and its request context are gone
Close(r) ==
    /\ pc[r] = "done"
    /\ pc' = [pc EXCEPT ![r] = "idle"]
    /\ req' = [req EXCEPT ![r] = NoRequest]
    /\ rid' = [rid EXCEPT ![r] = 0]
    /\ trace' = [trace EXCEPT ![r] = <<>>]
    /\ bodyRead' = [bodyRead EXCEPT ![r] = FALSE]
    /\ events' = [events EXCEPT ![r] = <<>>]
    /\ idx' = [idx EXCEPT ![r] = 0]
    /\ results' = [results EXCEPT ![r] = <<>>]
    /\ error_count' = [error_count EXCEPT ![r] = 0]
    /\ resp' = [resp EXCEPT ![r] = NoResponse]
    /\ calls' = [calls EXCEPT ![r] = <<>>]
    /\ wire' = [wire EXCEPT ![r] = <<>>]
    /\ log' = [log EXCEPT ![r] = <<>>]
    /\ UNCHANGED shared

(***************************************************************************)
(* The environment.                                                        *)
(***************************************************************************)
\* the limiter's fixed window of client c ends
WindowExpire(c) ==
    /\ hits[c] > 0
    /\ hits' = [hits EXCEPT ![c] = 0]
    /\ UNCHANGED <<pc, perRequest, uuids, accepted, envHeader, credential>>

Next ==
    \/ \E r \in Reqs : Arrive(r)
    \/ \E r \in Reqs : RequestIDDispatch(r)
    \/ \E r \in Reqs : TimeoutDispatch(r)
    \/ \E r \in Reqs : SlowAPIDispatch(r)
    \/ \E r \in Reqs : PayloadSizeDispatch(r)
    \/ \E r \in Reqs : ReceiveBody(r)
    \/ \E r \in Reqs : Authenticate(r)
    \/ \E r \in Reqs : Validate(r)
    \/ \E r \in Reqs : LimiterCheck(r)
    \/ \E r \in Reqs : ingest_event(r)
    \/ \E r \in Reqs : ingest_batch_loop(r)
    \/ \E r \in Reqs : ingest_batch_return(r)
    \/ \E r \in Reqs : health_check(r)
    \/ \E r \in Reqs : liveness_probe(r)
    \/ \E r \in Reqs : PayloadSizeReturn(r)
    \/ \E r \in Reqs : SlowAPIReturn(r)
    \/ \E r \in Reqs : TimeoutReturn(r, 0)
    \/ \E r \in Reqs : TimeoutExpire(r)
    \/ \E r \in Reqs : RequestIDReturn(r)
    \/ \E r \in Reqs : Close(r)
    \/ \E c \in Clients : WindowExpire(c)

Spec == Init /\ [][Next]_vars

(***************************************************************************)
(* The requests that end before a body is validated: any path, routed or   *)
(* not, any Content-Length header, and on the routes that take a body      *)
(* every credential but the right one.                                     *)
(***************************************************************************)
\* the server accepts the head of such a request.  unrouted: paths no route
\* matches; lengths: no Content-Length header, an empty one, one that is not
\* a number, and the values around the two ceilings
ArriveEdge(r) ==
    LET unrouted ==
            {PathRoot,
             <<"/", "v", "1", "/", "i", "n", "g", "e", "s", "t">>,
             <<"/", "i", "n", "g", "e", "s", "t", "/", "b", "a", "t", "c", "h">>,
             <<"/", "m", "e", "t", "r", "i", "c", "s">>,
             <<"/", "p", "a", "s", "s", "w", "o", "r", "d", "=",
               "h", "u", "n", "t", "e", "r", "2">>}
        lengths ==
            {NoLength, Length(<<>>), Length(<<"a", "b", "c">>),
             Length(OneMiB), Length(OneMiBPlus1), Length(TenMiB), Length(TenMiBPlus1)}
        keys(path) ==
            IF path \in BodyRoutes THEN ApiKeyHeaders \ {Header(API_KEY)}
            ELSE IF path = PathHealth THEN ApiKeyHeaders
            ELSE {NoHeader}
    IN  /\ \A q \in Reqs : pc[q] = "idle"
        /\ r = 1
        /\ accepted < MaxRequests
        /\ \E client \in Clients, path \in Paths \cup {PathReady} \cup unrouted :
              \E api_key \in keys(path), content_length \in lengths :
                  req' = [req EXCEPT ![r] =
                             Request(client, path, api_key, content_length, NoBody)]
        /\ pc' = [pc EXCEPT ![r] = "RequestID"]
        /\ accepted' = accepted + 1
        /\ UNCHANGED <<rid, trace, bodyRead, loopVars, resp, effects,
                       hits, uuids, envHeader, credential>>

NextEdge ==
    \/ \E r \in Reqs : ArriveEdge(r)
    \/ \E r \in Reqs : RequestIDDispatch(r)
    \/ \E r \in Reqs : TimeoutDispatch(r)
    \/ \E r \in Reqs : SlowAPIDispatch(r)
    \/ \E r \in Reqs : PayloadSizeDispatch(r)
    \/ \E r \in Reqs : ReceiveBody(r)
    \/ \E r \in Reqs : Authenticate(r)
    \/ \E r \in Reqs : health_check(r)
    \/ \E r \in Reqs : liveness_probe(r)
    \/ \E r \in Reqs : readiness_probe(r)
    \/ \E r \in Reqs : not_found(r)
    \/ \E r \in Reqs : PayloadSizeReturn(r)
    \/ \E r \in Reqs : SlowAPIReturn(r)
    \/ \E r \in Reqs : TimeoutReturn(r, 0)
    \/ \E r \in Reqs : TimeoutExpire(r)
    \/ \E r \in Reqs : RequestIDReturn(r)
    \/ \E r \in Reqs : Close(r)

SpecEdge == Init /\ [][NextEdge]_vars

(***************************************************************************)
(* Concurrent requests: every slot takes a request of its own, from two    *)
(* client addresses, with the right credential and a valid body, to the    *)
(* two routes that deliver events.  The agent's socket is there; the agent *)
(* takes every datagram, or stops reading its queue.                       *)
(***************************************************************************)
Addresses == {"10.0.0.1", "10.0.0.2"}

InitLoop ==
    /\ pc = [r \in Reqs |-> "idle"]
    /\ req = [r \in Reqs |-> NoRequest]
    /\ rid = [r \in Reqs |-> 0]
    /\ trace = [r \in Reqs |-> <<>>]
    /\ bodyRead = [r \in Reqs |-> FALSE]
    /\ events = [r \in Reqs |-> <<>>]
    /\ idx = [r \in Reqs |-> 0]
    /\ results = [r \in Reqs |-> <<>>]
    /\ error_count = [r \in Reqs |-> 0]
    /\ resp = [r \in Reqs |-> NoResponse]
    /\ calls = [r \in Reqs |-> <<>>]
    /\ wire = [r \in Reqs |-> <<>>]
    /\ log = [r \in Reqs |-> <<>>]
    /\ \E busy \in SUBSET Addresses :
           hits = [c \in Addresses |-> IF c \in busy THEN RATE_LIMIT - 1 ELSE 0]
    /\ uuids = 0
    /\ accepted = 0
    /\ envHeader = ""
    /\ credential = API_KEY

\* the server accepts the head of a request while others are in flight
ArriveLoop(r) ==
    /\ pc[r] = "idle"
    /\ \A q \in 1..(r - 1) : pc[q] # "idle"
    /\ accepted < MaxRequests
    /\ \E client \in Addresses, path \in BodyRoutes :
           req' = [req EXCEPT ![r] =
                      Request(client, path, Header(API_KEY), NoLength, NoBody)]
    /\ pc' = [pc EXCEPT ![r] = "RequestID"]
    /\ accepted' = accepted + 1
    /\ UNCHANGED <<rid, trace, bodyRead, loopVars, resp, effects,
                   hits, uuids, envHeader, credential>>

\* s.send(encoded_msg) on the blocking socket of send_msg does not return
\* while the agent does not read its queue: the call, and with it the event
\* loop that runs the handler, stays in send()
send_blocks(r) ==
    /\ \/ pc[r] = "Ingest"
       \/ pc[r] = "Batch" /\ ~loop_exhausted(idx[r], events[r])
    /\ trace' = [trace EXCEPT ![r] = IF idx[r] = 0 THEN Append(@, "Handler") ELSE @]
    /\ pc' = [pc EXCEPT ![r] = "Blocked"]
    /\ UNCHANGED <<req, rid, bodyRead, loopVars, resp, effects, shared>>

\* the bodies the concurrent clients send
LoopBodies(path) ==
    IF path = PathIngest THEN {EventBody(RawBasic)}
    ELSE {BatchBody([i \in 1..MaxBatch |-> RawBasic])}

\* every call of send_msg so far found the socket and met no error
AgentReads ==
    \A r \in Reqs : \A i \in 1..Len(calls[r]) :
        calls[r][i].exists /\ calls[r][i].fault = NoFault

NextLoop ==
    \/ \E r \in Reqs : ArriveLoop(r)
    \/ \E r \in Reqs : RequestIDDispatch(r)
    \/ \E r \in Reqs : TimeoutDispatch(r)
    \/ \E r \in Reqs : SlowAPIDispatch(r)
    \/ \E r \in Reqs : PayloadSizeDispatch(r)
    \/ \E r \in Reqs : ReceiveBody(r) /\ req'[r].body \in LoopBodies(req[r].path)
    \/ \E r \in Reqs : Authenticate(r)
    \/ \E r \in Reqs : Validate(r)
    \/ \E r \in Reqs : LimiterCheck(r)
    \/ \E r \in Reqs : ingest_event(r) /\ AgentReads'
    \/ \E r \in Reqs : ingest_batch_loop(r) /\ AgentReads'
    \/ \E r \in Reqs : ingest_batch_return(r)
    \/ \E r \in Reqs : send_blocks(r)
    \/ \E r \in Reqs : PayloadSizeReturn(r)
    \/ \E r \in Reqs : SlowAPIReturn(r)
    \/ \E r \in Reqs : TimeoutReturn(r, 0)
    \/ \E r \in Reqs : TimeoutExpire(r)
    \/ \E r \in Reqs : RequestIDReturn(r)
    \/ \E r \in Reqs : Close(r)
    \/ \E c \in Addresses : WindowExpire(c)

SpecLoop == InitLoop /\ [][NextLoop]_vars


(***************************************************************************)
(* Validation in depth: one request after another to /ingest and /batch,   *)
(* with the valid key, whose events put every field at and around the      *)
(* limits of IngestEvent; the response may be slow.                        *)
(***************************************************************************)
\* RawBasic with one field replaced, and with a key IngestEvent does not
\* have; Fill(n) is a string of n characters
EventInputs ==
    LET RECURSIVE Fill(_)
        Fill(n) ==
            IF n = 0 THEN ""
            ELSE IF n % 2 = 1 THEN "a" \o Fill(n - 1)
            ELSE LET half == Fill(n \div 2) IN half \o half
    IN
    {RawBasic, RawCustom, RawBadLevel, [unknown |-> JStr("x")] @@ RawBasic}
        \cup {[RawBasic EXCEPT !.timestamp = val] :
                  val \in {JAbsent, JStr(""), JStr("2024-01-1"), JStr("2024-01-15"),
                           JStr("not-a-date!!")}}
        \cup {[RawBasic EXCEPT !.source = val] :
                  val \in {JAbsent, JStr(""), JStr(Fill(SOURCE_MAX_LENGTH)),
                           JStr(Fill(SOURCE_MAX_LENGTH + 1))}}
        \cup {[RawBasic EXCEPT !.message = val] :
                  val \in {JAbsent, JStr(""), JStr(Fill(MESSAGE_MAX_LENGTH)),
                           JStr(Fill(MESSAGE_MAX_LENGTH + 1))}}
        \cup {[RawBasic EXCEPT !.level = val] :
                  val \in {JNull, JStr(""), JStr("info"), JStr("INFO"), JStr("Warning"),
                           JStr("Critical"), JStr("DEBUG"), JStr(" info")}}
        \cup {[RawBasic EXCEPT !.tags = val] :
                  val \in {JNull, JStr("auth"), JList(<<>>), JList(<<"b", "a">>),
                           JList(<<Fill(TAG_MAX_LENGTH)>>),
                           JList(<<"a", Fill(TAG_MAX_LENGTH + 1)>>)}}
        \cup {[RawBasic EXCEPT !.metadata = val] :
                  val \in {JNull, JStr("x"), JObj(<<>>)}}
        \cup {[RawBasic EXCEPT !.decoder = val] :
                  val \in {JNull, JStr(""), JStr(Fill(DECODER_MAX_LENGTH)),
                           JStr(Fill(DECODER_MAX_LENGTH + 1))}}

\* the server accepts the head of a request to one of the given paths with one
\* of the given X-API-Key headers; the application
\* exists only when the import of the module went past the start-up check
ArriveFrom(r, paths, api_keys) ==
    /\ startup_ok(credential)
    /\ \A q \in Reqs : pc[q] = "idle"
    /\ r = 1
    /\ accepted < MaxRequests
    /\ \E client \in Clients, path \in paths, api_key \in api_keys :
           req' = [req EXCEPT ![r] = Request(client, path, api_key, NoLength, NoBody)]
    /\ pc' = [pc EXCEPT ![r] = "RequestID"]
    /\ accepted' = accepted + 1
    /\ UNCHANGED <<rid, trace, bodyRead, loopVars, resp, effects,
                   hits, uuids, envHeader, credential>>

\* the bodies are every event alone, and the batches of at most MaxBatch
\* events of four kinds; the time call_next took, in milliseconds, is on
\* either side of the threshold
ValidateInputs ==
    [event |-> {EventBody(raw) : raw \in EventInputs},
     batch |-> {BatchBody(items) :
                   items \in UNION {[1..n -> {RawBasic, RawCustom, RawBadLevel,
                                              [RawBasic EXCEPT !.timestamp =
                                                   JStr("not-a-date!!")]}] :
                                        n \in 0..MaxBatch}},
     duration_ms |-> {0, SLOW_REQUEST_THRESHOLD * 1000,
                      SLOW_REQUEST_THRESHOLD * 1000 + 1,
                      REQUEST_TIMEOUT_SECONDS * 1000 - 1}]

NextValidate ==
    \/ \E r \in Reqs :
           ArriveFrom(r, BodyRoutes, {Header(API_KEY)})
    \/ \E r \in Reqs : RequestIDDispatch(r)
    \/ \E r \in Reqs : TimeoutDispatch(r)
    \/ \E r \in Reqs : SlowAPIDispatch(r)
    \/ \E r \in Reqs : PayloadSizeDispatch(r)
    \/ \E r \in Reqs :
           Receive(r, IF req[r].path = PathIngest
                      THEN ValidateInputs.event ELSE ValidateInputs.batch)
    \/ \E r \in Reqs : Authenticate(r)
    \/ \E r \in Reqs : Validate(r)
    \/ \E r \in Reqs : LimiterCheck(r)
    \/ \E r \in Reqs : ingest_event(r)
    \/ \E r \in Reqs : ingest_batch_loop(r)
    \/ \E r \in Reqs : ingest_batch_return(r)
    \/ \E r \in Reqs : PayloadSizeReturn(r)
    \/ \E r \in Reqs : SlowAPIReturn(r)
    \/ \E r \in Reqs :
           \E duration_ms \in ValidateInputs.duration_ms : TimeoutReturn(r, duration_ms)
    \/ \E r \in Reqs : RequestIDReturn(r)
    \/ \E r \in Reqs : Close(r)

SpecValidate == Init /\ [][NextValidate]_vars


(***************************************************************************)
(* Start-up: the module is imported with the secret in any of its three    *)
(* sources, then requests arrive.                                          *)
(***************************************************************************)
\* the state after the import of the module: API_KEY is what read_secret
\* returned, whether or not the RuntimeError was raised
InitStart ==
    /\ pc = [r \in Reqs |-> "idle"]
    /\ req = [r \in Reqs |-> NoRequest]
    /\ rid = [r \in Reqs |-> 0]
    /\ trace = [r \in Reqs |-> <<>>]
    /\ bodyRead = [r \in Reqs |-> FALSE]
    /\ events = [r \in Reqs |-> <<>>]
    /\ idx = [r \in Reqs |-> 0]
    /\ results = [r \in Reqs |-> <<>>]
    /\ error_count = [r \in Reqs |-> 0]
    /\ resp = [r \in Reqs |-> NoResponse]
    /\ calls = [r \in Reqs |-> <<>>]
    /\ wire = [r \in Reqs |-> <<>>]
    /\ log = [r \in Reqs |-> <<>>]
    /\ hits = [c \in Clients |-> 0]
    /\ uuids = 0
    /\ accepted = 0
    /\ envHeader = ""
    /\ \E sources \in SecretSources :
           credential = read_secret(sources.docker, sources.local, sources.env)

\* the requests go to the event route or to a probe, and carry no key, an
\* empty key or a key a source can hold
StartInputs ==
    [paths |-> {PathIngest, PathHealth, PathLive},
     api_keys |-> {NoHeader, Header(""), Header(" "), Header("env-key"),
                   Header("local-key"), Header(API_KEY)}]

NextStart ==
    \/ \E r \in Reqs :
           ArriveFrom(r, StartInputs.paths, StartInputs.api_keys)
    \/ \E r \in Reqs : RequestIDDispatch(r)
    \/ \E r \in Reqs : TimeoutDispatch(r)
    \/ \E r \in Reqs : SlowAPIDispatch(r)
    \/ \E r \in Reqs : PayloadSizeDispatch(r)
    \/ \E r \in Reqs : Receive(r, {IF req[r].path = PathIngest
                                    THEN EventBody(RawBasic) ELSE NoBody})
    \/ \E r \in Reqs : Authenticate(r)
    \/ \E r \in Reqs : Validate(r)
    \/ \E r \in Reqs : ingest_event(r) /\ AgentReads'
    \/ \E r \in Reqs : health_check(r)
    \/ \E r \in Reqs : liveness_probe(r)
    \/ \E r \in Reqs : PayloadSizeReturn(r)
    \/ \E r \in Reqs : SlowAPIReturn(r)
    \/ \E r \in Reqs : TimeoutReturn(r, 0)
    \/ \E r \in Reqs : RequestIDReturn(r)
    \/ \E r \in Reqs : Close(r)

SpecStart == InitStart /\ [][NextStart]_vars


(***************************************************************************)
(* Vocabulary of the properties.                                           *)
(***************************************************************************)
\* the steps at which resp[r] holds the response on its way out
Outbound == {"PayloadSizeOut", "SlowAPIOut", "TimeoutOut", "RequestIDOut", "done"}

Entered(r, stage) == \E i \in 1..Len(trace[r]) : trace[r][i] = stage

TimedOut(r) == Entered(r, "Timeout:expired")

\* the header is absent or is not exactly the configured key
KeyRejected(api_key_header) ==
    ~api_key_header.present \/ api_key_header.value # API_KEY

\* the handler of /batch has returned for r
BatchReturned(r) ==
    /\ req[r].path = PathBatch
    /\ Entered(r, "Handler")
    /\ pc[r] \in Outbound

(***************************************************************************)
(* C1: a request to an authenticated route (/ingest, /batch, /health)      *)
(* whose X-API-Key header is absent or is not exactly the configured key   *)
(* is answered 401 once get_api_key has decided it, its handler is never   *)
(* entered and no datagram is sent for it.                                 *)
(***************************************************************************)
C1_Unauthorized ==
    \A r \in Reqs :
        (/\ pc[r] = "done"
         /\ req[r].path \in AuthenticatedRoutes
         /\ KeyRejected(req[r].api_key)
         /\ Entered(r, "Auth")
         /\ ~TimedOut(r))
        => /\ resp[r].status = 401
           /\ ~Entered(r, "Handler")
           /\ calls[r] = <<>>
           /\ wire[r] = <<>>

(***************************************************************************)
(* C2: /batch calls send_msg exactly once per event of the batch, in the   *)
(* order of the batch: the i-th call is for the i-th event, an error for   *)
(* one event neither ends the loop nor skips an event, and no event is     *)
(* sent twice.                                                             *)
(***************************************************************************)
C2_BatchCallsInOrder ==
    \A r \in Reqs :
        /\ req[r].path = PathBatch =>
               \A i \in 1..Len(calls[r]) :
                   /\ i <= Len(req[r].body.events)
                   /\ calls[r][i].index = i
                   /\ calls[r][i].msg = EventDict(IngestEvent(req[r].body.events[i]))
        /\ BatchReturned(r) => Len(calls[r]) = Len(req[r].body.events)

\* a batch of two has returned, its first event failed and its second was sent
C2_Witness ==
    \E r \in Reqs :
        /\ BatchReturned(r)
        /\ Len(req[r].body.events) = 2
        /\ Len(calls[r]) = 2
        /\ calls[r][1].result.status = "error"
        /\ calls[r][2].result.status = "success"

(***************************************************************************)
(* C3: the response of a /batch request that was processed has total = the *)
(* number of events sent, details = the outcome of each event in the order *)
(* of the batch, and errors = the number of outcomes with status "error",  *)
(* so 0 <= errors <= total and Len(details) = total.                       *)
(***************************************************************************)
C3_BatchResponse ==
    \A r \in Reqs :
        (req[r].path = PathBatch /\ pc[r] \in Outbound /\ resp[r].status = 200) =>
            LET b == resp[r].body
                n == Len(req[r].body.events)
            IN  /\ b.status = "batch_processed"
                /\ b.total = n
                /\ Len(b.details) = b.total
                /\ \A i \in 1..n : b.details[i] = calls[r][i].result
                /\ b.errors = Cardinality({i \in 1..n : b.details[i].status = "error"})
                /\ b.errors \in 0..b.total

\* a processed batch of two events of which exactly one failed
C3_Witness ==
    \E r \in Reqs :
        /\ req[r].path = PathBatch
        /\ pc[r] = "done"
        /\ resp[r].status = 200
        /\ resp[r].body.total = 2
        /\ resp[r].body.errors = 1


(***************************************************************************)
(* C4: a /batch request whose events list is empty or holds more than      *)
(* 1000 items is never delivered: no handler, no call of send_msg, no      *)
(* datagram, not even for part of the batch; schema validation answers it  *)
(* 400 Validation Error when the request gets that far.                    *)
(***************************************************************************)
BatchOutOfRange(r) ==
    /\ req[r].path = PathBatch
    /\ req[r].body.k = "batch"
    /\ (Len(req[r].body.events) = 0 \/ Len(req[r].body.events) > 1000)

C4_BatchSizeRejected ==
    \A r \in Reqs :
        BatchOutOfRange(r) =>
            /\ ~Entered(r, "Handler")
            /\ pc[r] \notin {"Limit", "Batch"}
            /\ events[r] = <<>>
            /\ calls[r] = <<>>
            /\ wire[r] = <<>>
            /\ (pc[r] \in Outbound /\ Entered(r, "Validate") /\ ~TimedOut(r)) =>
                   /\ resp[r].status = 400
                   /\ resp[r].body.error = "Validation Error"
            /\ pc[r] = "done" => resp[r].status # 200

\* a batch of 1001 valid events has been answered 400 by validation
C4_Witness ==
    \E r \in Reqs :
        /\ pc[r] = "done"
        /\ BatchOutOfRange(r)
        /\ Len(req[r].body.events) = 1001
        /\ Entered(r, "Validate")
        /\ resp[r].status = 400
        /\ calls[r] = <<>>

(***************************************************************************)
(* C5: a transport failure never becomes an HTTP error status.  Once the   *)
(* handler of /ingest or /batch has run and the request was not timed out, *)
(* the response is 200: /ingest carries the outcome in the body's status   *)
(* field (error / Backend service unavailable when the socket is absent),  *)
(* /batch answers batch_processed even if every delivery failed.           *)
(***************************************************************************)
C5_TransportNeverEscalated ==
    \A r \in Reqs :
        (/\ pc[r] \in Outbound
         /\ Entered(r, "Handler")
         /\ ~TimedOut(r)
         /\ req[r].path \in {PathIngest, PathBatch})
        => /\ resp[r].status = 200
           /\ req[r].path = PathIngest =>
                  /\ resp[r].body.status = calls[r][1].result.status
                  /\ ~calls[r][1].exists =>
                         /\ resp[r].body.status = "error"
                         /\ resp[r].body.message = "Backend service unavailable"
           /\ req[r].path = PathBatch => resp[r].body.status = "batch_processed"

\* a batch of two events, both deliveries failed, answered 200
C5_Witness ==
    \E r \in Reqs :
        /\ pc[r] = "done"
        /\ req[r].path = PathBatch
        /\ resp[r].status = 200
        /\ resp[r].body.total = 2
        /\ resp[r].body.errors = 2

(***************************************************************************)
(* C6: the message of every send_msg outcome is one of five fixed phrases, *)
(* chosen by the class of the outcome only: socket absent or errno 111 ->  *)
(* Backend service unavailable; errno 90 -> Message exceeds size limit;    *)
(* any other socket error -> Communication error; any other exception ->   *)
(* An unexpected error occurred; success -> Event sent to Wazuh.  The      *)
(* outcome holds nothing else: no path, no error code, no exception text.  *)
(***************************************************************************)
GenericMessages ==
    {"Event sent to Wazuh", "Backend service unavailable",
     "Message exceeds size limit", "Communication error",
     "An unexpected error occurred"}

SocketErrorMessage(errno) ==
    IF errno = ECONNREFUSED THEN "Backend service unavailable"
    ELSE IF errno = EMSGSIZE THEN "Message exceeds size limit"
    ELSE "Communication error"

\* the header of the message cannot be encoded
Unencodable(msg) ==
    HasKey(msg, "decoder") /\ GetKey(msg, "decoder").v = LoneSurrogate

ExpectedOutcome(c) ==
    IF ~c.exists
    THEN [status |-> "error", message |-> "Backend service unavailable"]
    ELSE IF c.fault.at = "connect"
    THEN [status |-> "error", message |-> SocketErrorMessage(c.fault.errno)]
    ELSE IF Unencodable(c.msg)
    THEN [status |-> "error", message |-> "An unexpected error occurred"]
    ELSE IF c.fault.at = "send"
    THEN [status |-> "error", message |-> SocketErrorMessage(c.fault.errno)]
    ELSE [status |-> "success", message |-> "Event sent to Wazuh"]

C6_GenericMessages ==
    \A r \in Reqs :
        /\ \A i \in 1..Len(calls[r]) :
               /\ calls[r][i].result = ExpectedOutcome(calls[r][i])
               /\ DOMAIN calls[r][i].result = {"status", "message"}
               /\ calls[r][i].result.message \in GenericMessages
        /\ (pc[r] \in Outbound /\ resp[r].status = 200 /\ req[r].path = PathIngest) =>
               resp[r].body.message \in GenericMessages
        /\ (pc[r] \in Outbound /\ resp[r].status = 200 /\ req[r].path = PathBatch) =>
               \A i \in 1..Len(resp[r].body.details) :
                   resp[r].body.details[i].message \in GenericMessages

\* one batch met an absent socket, then a refused connection: the two
\* outcomes are the same dict
C6_Witness ==
    \E r \in Reqs :
        /\ BatchReturned(r)
        /\ Len(calls[r]) = 2
        /\ ~calls[r][1].exists
        /\ calls[r][2].exists
        /\ calls[r][2].fault = [at |-> "connect", errno |-> ECONNREFUSED]
        /\ calls[r][1].result = calls[r][2].result
        /\ resp[r].body.details[2].message = "Backend service unavailable"


(***************************************************************************)
(* C7: for every event delivered with success exactly one datagram is      *)
(* sent: the header followed at once by the JSON encoding of the validated *)
(* event with ingest = "api" added.  The header is "1:<decoder>:" when the *)
(* event names a decoder; otherwise it is the configured header string as  *)
(* it stands: "1:Wazuh-AWS:" unless WAZUH_DECODER_HEADER is set, and then  *)
(* the value of that variable with nothing put around it.  In a batch the  *)
(* header of an event depends on that event's decoder only.                *)
(***************************************************************************)
BasicJson ==
    "{\"timestamp\": \"2024-01-15T10:30:00Z\", \"source\": \"srv1\", "
    \o "\"message\": \"hello\", \"level\": \"info\", \"tags\": [], "
    \o "\"metadata\": {}, \"ingest\": \"api\"}"

CustomJson ==
    "{\"timestamp\": \"2024-01-15T10:30:01Z\", \"source\": \"web-01\", "
    \o "\"message\": \"login failed\", \"level\": \"error\", "
    \o "\"tags\": [\"auth\", \"security\"], \"metadata\": {\"user\": \"u1\"}, "
    \o "\"decoder\": \"custom-decoder\", \"ingest\": \"api\"}"

\* the event, as the client sent it, that call c of request r delivers
SentEvent(r, c) ==
    IF req[r].path = PathIngest THEN req[r].body.event
    ELSE req[r].body.events[c.index]

\* the datagram of an event of the model, given the header of an event
\* that names no decoder
ExpectedDatagram(raw, header) ==
    IF raw = RawCustom THEN "1:custom-decoder:" \o CustomJson
    ELSE header \o BasicJson

Delivered(r) == SelectSeq(calls[r], LAMBDA c : c.result.status = "success")

DatagramsAre(r, header) ==
    /\ Len(wire[r]) = Len(Delivered(r))
    /\ \A k \in 1..Len(Delivered(r)) :
           wire[r][k] = ExpectedDatagram(SentEvent(r, Delivered(r)[k]), header)

C7_WireMessage ==
    \A r \in Reqs :
        DatagramsAre(r, IF envHeader = "" THEN "1:Wazuh-AWS:" ELSE envHeader)

\* the claim as the spec words it: the configured value is the decoder
\* segment of the header
C7_DecoderSegment ==
    \A r \in Reqs :
        DatagramsAre(r, "1:" \o (IF envHeader = "" THEN "Wazuh-AWS" ELSE envHeader) \o ":")

\* a batch of two delivered events, one with its own decoder and one
\* without, under an overridden default
C7_Witness ==
    \E r \in Reqs :
        /\ envHeader = "Wazuh-Custom"
        /\ BatchReturned(r)
        /\ wire[r] = <<"1:custom-decoder:" \o CustomJson, "Wazuh-Custom" \o BasicJson>>

(***************************************************************************)
(* C8: the stages of a request run in the order RequestID, Timeout,        *)
(* SlowAPI middleware (which rejects nothing: no default limit is set),    *)
(* PayloadSizeLimit, authentication, schema validation, then for /batch    *)
(* the check of the route's 100/minute limit, then the handler.  When a    *)
(* stage answers by itself (400/413, 401, 400 validation, 429) no later    *)
(* stage and no handler runs, and the response passes out through          *)
(* PayloadSizeLimit, SlowAPI, Timeout and RequestID; a timeout answers 504 *)
(* and passes out through RequestID; the 500 of an unhandled exception is  *)
(* written outside the chain and passes through no stage.                  *)
(***************************************************************************)
InboundStages ==
    {"RequestID", "Timeout", "RateLimit", "PayloadSizeLimit",
     "Auth", "Validate", "Limit", "Handler"}

Ins(r) == SelectSeq(trace[r], LAMBDA e : e \in InboundStages)

Outs(r) == SelectSeq(trace[r], LAMBDA e : e \notin InboundStages)

IsPrefix(a, b) ==
    /\ Len(a) <= Len(b)
    /\ \A i \in 1..Len(a) : a[i] = b[i]

StageOrder(path) ==
    <<"RequestID", "Timeout", "RateLimit", "PayloadSizeLimit">>
        \o (IF path = PathBatch THEN <<"Auth", "Validate", "Limit", "Handler">>
            ELSE IF path = PathIngest THEN <<"Auth", "Validate", "Handler">>
            ELSE IF path = PathHealth THEN <<"Auth", "Handler">>
            ELSE <<"Handler">>)

\* the stage that wrote the response r carries, from the response itself
AnsweredBy(response) ==
    CASE response.status = 413 -> "PayloadSizeLimit"
      [] response.status = 400 /\ response.body.error = "Bad Request" -> "PayloadSizeLimit"
      [] response.status = 401 -> "Auth"
      [] response.status = 400 /\ response.body.error = "Validation Error" -> "Validate"
      [] response.status = 429 -> "Limit"
      [] response.status = 200 -> "Handler"
      [] OTHER -> "none"

FullWayOut == <<"PayloadSizeLimit:out", "RateLimit:out", "Timeout:out", "RequestID:out">>

ClaimedRank(stage) ==
    CASE stage = "RequestID" -> 1
      [] stage = "Timeout" -> 2
      [] stage \in {"RateLimit", "Limit"} -> 3
      [] stage = "PayloadSizeLimit" -> 4
      [] stage = "Auth" -> 5
      [] stage = "Validate" -> 6
      [] stage = "Handler" -> 7

HasRequestId(response) == "request_id" \in DOMAIN response.body

C9_Correlated ==
    \A r \in Reqs :
        /\ pc[r] \notin {"idle", "RequestID"} => rid[r] \in 1..uuids
        /\ (pc[r] \in Outbound /\ HasRequestId(resp[r])) =>
               resp[r].body.request_id = rid[r]
        /\ pc[r] = "done" =>
               /\ resp[r].headers.request_id = rid[r]
               /\ ~HasRequestId(resp[r]) <=>
                      \/ resp[r].status = 429
                      \/ resp[r].status = 404
                      \/ (req[r].path \in {PathLive, PathReady} /\ resp[r].status = 200)

\* the id is drawn once, is fresh, and stays until the request is closed
C9_DrawnOnce ==
    \A r \in Reqs :
        /\ (rid[r] = 0 /\ rid'[r] # 0) => (rid'[r] = uuids' /\ uuids' > uuids)
        /\ (rid[r] # 0 /\ pc'[r] # "idle") => rid'[r] = rid[r]

RouteCeiling(path) == IF path = PathIngest THEN 1048576 ELSE 10485760

DeclaresLength(r) ==
    req[r].content_length.present /\ IntParses(req[r].content_length.value)

\* PayloadSizeLimit answered by itself: it left without anything in between
ShortCircuited(r) ==
    \E i \in 1..(Len(trace[r]) - 1) :
        trace[r][i] = "PayloadSizeLimit" /\ trace[r][i + 1] = "PayloadSizeLimit:out"

C10_PayloadTooLarge ==
    \A r \in Reqs :
        /\ (/\ DeclaresLength(r)
            /\ IntOf(req[r].content_length.value) > RouteCeiling(req[r].path))
           => /\ ~bodyRead[r]
              /\ req[r].body = NoBody
              /\ ~Entered(r, "Auth")
              /\ ~Entered(r, "Handler")
              /\ calls[r] = <<>>
              /\ wire[r] = <<>>
              /\ Entered(r, "PayloadSizeLimit") => ShortCircuited(r)
              /\ (pc[r] \in Outbound /\ Entered(r, "PayloadSizeLimit") /\ ~TimedOut(r)) =>
                     /\ resp[r].status = 413
                     /\ resp[r].body.error = "Payload Too Large"
        /\ (/\ DeclaresLength(r)
            /\ IntOf(req[r].content_length.value) <= RouteCeiling(req[r].path))
           => /\ ~ShortCircuited(r)
              /\ pc[r] \in Outbound => resp[r].status # 413

\* /ingest with Content-Length 1048577 has been answered 413, body unread
C10_Witness ==
    \E r \in Reqs :
        /\ pc[r] = "done"
        /\ req[r].path = PathIngest
        /\ req[r].content_length = Length(OneMiBPlus1)
        /\ resp[r].status = 413
        /\ ~bodyRead[r]


(***************************************************************************)
(* C11: PayloadSizeLimit chooses the ceiling from the text of the request  *)
(* path: 10 MiB when the path contains "/batch"; otherwise 1 MiB when the  *)
(* path is "/" or contains "/ingest"; otherwise 10 MiB.  A declared length *)
(* is rejected by the stage exactly when it is above that ceiling.  Among  *)
(* the routes of the service, /ingest alone has the 1 MiB ceiling.         *)
(***************************************************************************)
\* the ceilings of the paths requests are sent to, written out
CeilingOf(path) ==
    CASE path = <<"/", "i", "n", "g", "e", "s", "t">> -> 1048576
      [] path = <<"/">> -> 1048576
      [] path = <<"/", "v", "1", "/", "i", "n", "g", "e", "s", "t">> -> 1048576
      [] OTHER -> 10485760

\* PayloadSizeLimit has decided on a request that declares a length
LengthJudged(r) == DeclaresLength(r) /\ Entered(r, "PayloadSizeLimit")

C11_CeilingByPathText ==
    /\ \A r \in Reqs :
           LengthJudged(r) =>
               (ShortCircuited(r)
                    <=> IntOf(req[r].content_length.value) > CeilingOf(req[r].path))
    /\ \A path \in {PathIngest, PathBatch, PathHealth, PathLive, PathReady} :
           CeilingOf(path) = 1048576 <=> path = PathIngest

\* the claim as stated: 1 MiB exactly for /ingest, 10 MiB for any other path
C11_CeilingByRoute ==
    \A r \in Reqs :
        LengthJudged(r) =>
            (ShortCircuited(r)
                 <=> IntOf(req[r].content_length.value) > RouteCeiling(req[r].path))

\* a request to "/", which is no route, declares 1 MiB + 1 and has been
\* answered 413
C11_Witness ==
    \E r \in Reqs :
        /\ pc[r] = "done"
        /\ req[r].path = PathRoot
        /\ req[r].content_length = Length(OneMiBPlus1)
        /\ resp[r].status = 413


(***************************************************************************)
(* C12: PayloadSizeLimit delegates every request that has no               *)
(* Content-Length header; a request whose Content-Length header is present *)
(* and is not an integer is answered 400 "Bad Request" / "Invalid          *)
(* Content-Length header" with the request id by the stage itself, and     *)
(* nothing behind the stage runs for it.                                   *)
(***************************************************************************)
C12_ContentLength ==
    \A r \in Reqs :
        Entered(r, "PayloadSizeLimit") =>
            /\ ~req[r].content_length.present => ~ShortCircuited(r)
            /\ (req[r].content_length.present
                    /\ ~IntParses(req[r].content_length.value)) =>
                   /\ ShortCircuited(r)
                   /\ ~bodyRead[r]
                   /\ ~Entered(r, "Auth")
                   /\ ~Entered(r, "Router")
                   /\ ~Entered(r, "Handler")
                   /\ (pc[r] \in Outbound /\ ~TimedOut(r)) =>
                          /\ resp[r].status = 400
                          /\ resp[r].body = [error |-> "Bad Request",
                                             message |-> "Invalid Content-Length header",
                                             request_id |-> rid[r]]


(***************************************************************************)
(* C13: when the deadline of RequestTimeoutMiddleware expires on a request *)
(* that is still being processed, the processing is cancelled (no stage    *)
(* inside the Timeout stage runs for the request any more, and it is not   *)
(* started again), and the response is 504 with the body                   *)
(* {error: "Gateway Timeout", message: "Request processing time exceeded", *)
(* request_id}, whose request_id and X-Request-ID header are the request's *)
(* id.                                                                     *)
(***************************************************************************)
\* the number of times stage occurs in the trace of r
Occurrences(r, stage) == Cardinality({i \in 1..Len(trace[r]) : trace[r][i] = stage})

\* the entries of the trace of r that follow the expiry
AfterExpiry(r) ==
    LET at == CHOOSE i \in 1..Len(trace[r]) : trace[r][i] = "Timeout:expired"
    IN  SubSeq(trace[r], at + 1, Len(trace[r]))

C13_GatewayTimeout ==
    \A r \in Reqs :
        TimedOut(r) =>
            /\ pc[r] \in {"RequestIDOut", "done"}
            /\ AfterExpiry(r) \in {<<"Timeout:out">>, <<"Timeout:out", "RequestID:out">>}
            /\ Occurrences(r, "Timeout:expired") = 1
            /\ Occurrences(r, "RequestID") = 1
            /\ Occurrences(r, "Timeout") = 1
            /\ Occurrences(r, "Handler") <= 1
            /\ rid[r] # 0
            /\ resp[r].status = 504
            /\ resp[r].body = [error |-> "Gateway Timeout",
                               message |-> "Request processing time exceeded",
                               request_id |-> rid[r]]
            /\ resp[r].headers.request_id = rid[r]
            /\ ~resp[r].headers.duration

\* the deadline expired after the handler of /health had run: its answer is
\* dropped and the client has been sent the 504
C13_Witness ==
    \E r \in Reqs :
        /\ pc[r] = "done"
        /\ TimedOut(r)
        /\ req[r].path = PathHealth
        /\ Entered(r, "Handler")
        /\ resp[r].status = 504


(***************************************************************************)
(* C16: get_api_key answers a request without X-API-Key header with 401    *)
(* "Authentication required" and a request whose header is present but is  *)
(* not exactly the configured key with 401 "Invalid credentials"; in both  *)
(* cases the body is exactly {error: "Unauthorized", message, request_id}  *)
(* and does not hold the configured key.                                   *)
(***************************************************************************)
\* get_api_key has decided on r and its answer is on the way out
KeyJudged(r) ==
    /\ req[r].path \in AuthenticatedRoutes
    /\ Entered(r, "Auth")
    /\ pc[r] \in Outbound \cup {"done"}
    /\ ~TimedOut(r)

C16_KeyMessages ==
    \A r \in Reqs :
        (KeyJudged(r) /\ KeyRejected(req[r].api_key)) =>
            /\ resp[r].status = 401
            /\ resp[r].body =
                   [error |-> "Unauthorized",
                    message |-> IF req[r].api_key.present
                                THEN "Invalid credentials"
                                ELSE "Authentication required",
                    request_id |-> rid[r]]
            /\ resp[r].body.message # API_KEY


(***************************************************************************)
(* C17: a request whose processing raised an exception that no handler of  *)
(* the service catches is answered 500 with the fixed message "An          *)
(* unexpected error occurred. Please try again later."; the response is    *)
(* determined by the request id alone, so nothing of the exception's type  *)
(* or text reaches the client.                                             *)
(***************************************************************************)
\* an exception reached ServerErrorMiddleware while r was processed
Unhandled(r) == Entered(r, "ServerError")

C17_GenericFailure ==
    \A r \in Reqs :
        Unhandled(r) =>
            /\ pc[r] = "done"
            /\ resp[r] =
                   [status |-> 500,
                    body |-> [error |-> "Internal Server Error",
                              message |-> "An unexpected error occurred. Please try again later.",
                              request_id |-> rid[r]],
                    headers |-> [request_id |-> rid[r], duration |-> FALSE]]

\* secrets.compare_digest raised TypeError on the key of a /health request
C17_Witness ==
    \E r \in Reqs :
        /\ Unhandled(r)
        /\ req[r].path = PathHealth
        /\ req[r].api_key = Header(NonAsciiKey)
        /\ resp[r].status = 500


(***************************************************************************)
(* C18: a response that reports a declared HTTP-level failure (a guard     *)
(* rejection, an authentication failure, a path no route matches, a        *)
(* service that is not ready, a timeout) keeps the status code c of the    *)
(* failure, names it in its error field by the fixed name of c, gives the  *)
(* sanitized detail as its message, and carries the request id in its      *)
(* body and, once sent, in its X-Request-ID header.                        *)
(***************************************************************************)
\* the fixed names, as the claim lists them
ErrorName(c) ==
    CASE c = 400 -> "Bad Request"
      [] c = 401 -> "Unauthorized"
      [] c = 403 -> "Forbidden"
      [] c = 404 -> "Not Found"
      [] c = 405 -> "Method Not Allowed"
      [] c = 408 -> "Request Timeout"
      [] c = 413 -> "Payload Too Large"
      [] c = 422 -> "Unprocessable Entity"
      [] c = 429 -> "Too Many Requests"
      [] c = 500 -> "Internal Server Error"
      [] c = 502 -> "Bad Gateway"
      [] c = 503 -> "Service Unavailable"
      [] c = 504 -> "Gateway Timeout"
      [] OTHER -> "Error"

\* the details of the failures the service declares, by status code
DetailsOf(c) ==
    CASE c = 400 -> {"Invalid Content-Length header"}
      [] c = 401 -> {"Authentication required", "Invalid credentials"}
      [] c = 404 -> {"Not Found"}
      [] c = 413 -> {"Request body exceeds maximum allowed size"}
      [] c = 503 -> {"Service is not ready to accept traffic"}
      [] c = 504 -> {"Request processing time exceeded"}
      [] OTHER -> {}

\* the response of r reports a failure that is not an unhandled exception
DeclaredFailure(r) ==
    /\ pc[r] \in Outbound
    /\ resp[r].status >= 400
    /\ ~Unhandled(r)

C18_DeclaredFailures ==
    \A r \in Reqs :
        DeclaredFailure(r) =>
            /\ DOMAIN resp[r].body = {"error", "message", "request_id"}
            /\ resp[r].body.error = ErrorName(resp[r].status)
            /\ resp[r].body.message \in DetailsOf(resp[r].status)
            /\ resp[r].body.request_id = rid[r]
            /\ pc[r] = "done" => resp[r].headers.request_id = rid[r]


(***************************************************************************)
(* C19: a request whose body fails schema validation is answered 400,      *)
(* never 422, with error "Validation Error" and one {field, message} entry *)
(* per validation error, in order; the field given to the client is the    *)
(* error's location without its leading "body" segment, and the entry      *)
(* written to the server log keeps the whole location and the message.     *)
(***************************************************************************)
\* the body of r was refused by validation and the answer is on its way out
ValidationFailed(r) ==
    /\ Entered(r, "Validate")
    /\ ~Entered(r, "Limit")
    /\ ~Entered(r, "Handler")
    /\ pc[r] \in Outbound
    /\ ~TimedOut(r)

LevelMessage == "Level must be one of: debug, info, warning, error, critical"

\* the entries expected for the events of a batch whose level is not allowed
RECURSIVE BadLevelEntries(_, _)
BadLevelEntries(items, n) ==
    IF n = 0 THEN <<>>
    ELSE BadLevelEntries(items, n - 1)
             \o (IF items[n].level = JStr("VERBOSE")
                 THEN <<[field |-> "events." \o ToString(n - 1) \o ".level",
                         message |-> LevelMessage]>>
                 ELSE <<>>)

\* the entries expected for the bodies requests are sent with
ExpectedDetails(body) ==
    IF body.k = "event"
    THEN <<[field |-> "level", message |-> LevelMessage]>>
    ELSE IF Len(body.events) = 0
         THEN <<[field |-> "events", message |-> "ensure this value has at least 1 items"]>>
    ELSE IF Len(body.events) > 1000
         THEN <<[field |-> "events", message |-> "ensure this value has at most 1000 items"]>>
    ELSE BadLevelEntries(body.events, Len(body.events))

C19_ValidationFailure ==
    \A r \in Reqs :
        ValidationFailed(r) =>
            LET written == {i \in 1..Len(log[r]) :
                               log[r][i].message = <<"Request validation failed">>}
                logged == server_errors(body_errors(req[r].path, req[r].body))
            IN  /\ resp[r].status = 400
                /\ DOMAIN resp[r].body = {"error", "message", "details", "request_id"}
                /\ resp[r].body.error = "Validation Error"
                /\ resp[r].body.request_id = rid[r]
                /\ resp[r].body.details = ExpectedDetails(req[r].body)
                /\ Len(resp[r].body.details) >= 1
                /\ Len(logged) = Len(resp[r].body.details)
                /\ \A i \in 1..Len(logged) :
                       /\ logged[i].field = "body." \o resp[r].body.details[i].field
                       /\ logged[i].message = resp[r].body.details[i].message
                /\ Cardinality(written) = 1
                /\ \A i \in written :
                       /\ "errors" \in DOMAIN log[r][i]
                       /\ log[r][i].errors = logged

\* a batch of two events, both with a level that is not allowed, has been
\* answered with two entries
C19_Witness ==
    \E r \in Reqs :
        /\ pc[r] = "done"
        /\ ValidationFailed(r)
        /\ req[r].path = PathBatch
        /\ Len(resp[r].body.details) = 2
        /\ resp[r].body.details[2].field = "events.1.level"


(***************************************************************************)
(* C20: every call of send_msg has closed the socket it opened when it     *)
(* returns, whatever the outcome (sent, endpoint absent, socket error,     *)
(* unexpected exception): no call leaves a socket open.                    *)
(***************************************************************************)
C20_SocketClosed ==
    \A r \in Reqs :
        \A i \in 1..Len(calls[r]) : calls[r][i].socket = "closed"


(***************************************************************************)
(* C14: no operation blocks the scheduler for unbounded time: whenever a   *)
(* request is in flight the server can take a step for some request - the  *)
(* request proceeds, another request proceeds, or the Timeout stage        *)
(* answers 504 - also while a delivery to the agent's socket stalls.       *)
(***************************************************************************)
\* r has been accepted and not yet answered
InFlight(r) == pc[r] \notin {"idle", "done"}

\* the steps the server can take for r
Serve(r) ==
    \/ RequestIDDispatch(r) \/ TimeoutDispatch(r) \/ SlowAPIDispatch(r)
    \/ PayloadSizeDispatch(r) \/ ReceiveBody(r) \/ Authenticate(r)
    \/ Validate(r) \/ LimiterCheck(r) \/ ingest_event(r)
    \/ ingest_batch_loop(r) \/ ingest_batch_return(r)
    \/ health_check(r) \/ liveness_probe(r) \/ readiness_probe(r) \/ not_found(r)
    \/ PayloadSizeReturn(r) \/ SlowAPIReturn(r) \/ TimeoutReturn(r, 0)
    \/ TimeoutExpire(r) \/ RequestIDReturn(r)

C14_SchedulerNeverBlocked ==
    (\E r \in Reqs : InFlight(r)) => (\E q \in Reqs : ENABLED Serve(q))

(***************************************************************************)
(* C15: the limit of 100 per minute on /batch is kept per client address   *)
(* under any interleaving of concurrent requests: each request the limiter *)
(* decides on is counted against its own address only, it is let through   *)
(* to the handler exactly when fewer than 100 requests of that address     *)
(* were counted in the current window, and otherwise it is answered 429    *)
(* and its handler does not run; the count of an address changes only by   *)
(* its own requests and by the end of its window; /ingest is never         *)
(* counted and never answered 429.                                         *)
(***************************************************************************)
\* the limiter decides on r in this step
Decides(r) == pc[r] = "Limit" /\ pc'[r] # "Limit"

C15_Decision ==
    /\ \A r \in Reqs :
           Decides(r) =>
               /\ req[r].path = PathBatch
               /\ hits[req[r].client] < 100 =>
                      /\ hits'[req[r].client] = hits[req[r].client] + 1
                      /\ pc'[r] = "Batch"
                      /\ resp'[r] = resp[r]
               /\ hits[req[r].client] >= 100 =>
                      /\ hits'[req[r].client] >= hits[req[r].client]
                      /\ pc'[r] = "PayloadSizeOut"
                      /\ resp'[r].status = 429
               /\ \A c \in DOMAIN hits \ {req[r].client} : hits'[c] = hits[c]
    /\ \A c \in DOMAIN hits :
           hits'[c] # hits[c] =>
               \/ \E r \in Reqs : Decides(r) /\ req[r].client = c
               \/ hits'[c] = 0

C15_Kept ==
    \A r \in Reqs :
        /\ (pc[r] \in Outbound /\ resp[r].status = 429) =>
               /\ req[r].path = PathBatch
               /\ ~Entered(r, "Handler")
               /\ calls[r] = <<>>
               /\ wire[r] = <<>>
        /\ req[r].path = PathIngest => ~Entered(r, "Limit")
        /\ (req[r].path = PathBatch /\ Entered(r, "Handler")) => Entered(r, "Limit")

EndpointAbsent(c) ==
    \/ ~c.exists
    \/ c.fault = [at |-> "connect", errno |-> ENOENT]

\* s.connect was called during call c
ConnectAttempted(c) == c.exists

C28_AbsentEndpoint ==
    \A r \in Reqs :
        \A i \in 1..Len(calls[r]) :
            EndpointAbsent(calls[r][i]) =>
                /\ calls[r][i].result =
                       [status |-> "error", message |-> "Backend service unavailable"]
                /\ ~ConnectAttempted(calls[r][i])



(***************************************************************************)
(* C21: in every record the service writes to its log, every match of a    *)
(* sensitive pattern is replaced by the marker of its key, in the rendered *)
(* message and in every text field of the record (the context fields, the  *)
(* extra fields and the message of the exception): no field of a written   *)
(* record still holds a match.                                             *)
(***************************************************************************)
\* the text fields of a written record
Texts(entry) ==
    {entry.message}
        \cup (IF "endpoint" \in DOMAIN entry THEN {entry.endpoint} ELSE {})
        \cup (IF "exception" \in DOMAIN entry THEN {entry.exception.message} ELSE {})

Redacted(text) == _redact_sensitive(text) = text

C21_EveryFieldRedacted ==
    \A r \in Reqs : \A i \in 1..Len(log[r]) :
        \A text \in Texts(log[r][i]) : Redacted(text)



(***************************************************************************)
(* C22: a request that takes longer than the slow-request threshold and    *)
(* finishes before the hard timeout is not rejected.  The step that finds  *)
(* it slow keeps the status and the body the inner stages produced, adds   *)
(* one warning entry to the log and the X-Request-Duration header, and     *)
(* changes nothing else; no later step changes the status or the body, and *)
(* the answer is never the 504 of the timeout.                             *)
(***************************************************************************)
SlowEntry(entry) == entry.message = <<"Slow request detected">>

\* r was found slow by RequestTimeoutMiddleware
Slow(r) == \E i \in 1..Len(log[r]) : SlowEntry(log[r][i])

C22_SlowNotRejected ==
    [][\A r \in Reqs :
           /\ (~Slow(r) /\ Slow(r)') =>
                  /\ resp'[r] = [resp[r] EXCEPT !.headers.duration = TRUE]
                  /\ Len(log'[r]) = Len(log[r]) + 1
                  /\ SubSeq(log'[r], 1, Len(log[r])) = log[r]
                  /\ log'[r][Len(log'[r])].level = "WARNING"
                  /\ log'[r][Len(log'[r])].duration_ms > SLOW_REQUEST_THRESHOLD * 1000
                  /\ log'[r][Len(log'[r])].duration_ms < REQUEST_TIMEOUT_SECONDS * 1000
                  /\ UNCHANGED <<req, rid, bodyRead, loopVars, calls, wire, shared>>
           /\ Slow(r)' =>
                  /\ resp'[r].status = resp[r].status
                  /\ resp'[r].body = resp[r].body
                  /\ resp'[r].status # 504
                  /\ resp'[r].headers.duration]_vars

\* a slow request to /ingest whose event was delivered has been answered 200
\* with the result of send_msg
C22_Witness ==
    \E r \in Reqs :
        /\ Slow(r)
        /\ pc[r] = "done"
        /\ req[r].path = PathIngest
        /\ wire[r] # <<>>
        /\ resp[r].status = 200
        /\ resp[r].body.status = "success"



(***************************************************************************)
(* C23: when no source holds a non-empty credential at start, the start-up *)
(* fails and no route ever serves a request; whenever a request has been   *)
(* authenticated, the credential it was compared with is not empty.        *)
(***************************************************************************)
\* the source holds a credential that is not empty: a file with more than
\* white space in it, or a variable with a value
Provides(source) ==
    \/ source.k = "file" /\ source.v \notin {"", " \n"}
    \/ source.k = "str" /\ source.v # ""

\* get_api_key let the request of r through
Authenticated(r) ==
    /\ Entered(r, "Auth")
    /\ pc[r] \in {"Validate", "Ingest", "Health"} \/ Entered(r, "Handler")

C23_CredentialRequired ==
    /\ \A sources \in SecretSources :
           ~(Provides(sources.docker) \/ Provides(sources.local) \/ Provides(sources.env))
               <=> ~startup_ok(read_secret(sources.docker, sources.local, sources.env))
    /\ credential = "" =>
           /\ accepted = 0
           /\ \A r \in Reqs : pc[r] = "idle" /\ trace[r] = <<>> /\ resp[r] = NoResponse
    /\ \A r \in Reqs :
           Authenticated(r) =>
               /\ credential # ""
               /\ req[r].api_key.present
               /\ req[r].api_key.value = credential

\* the credential came from the environment and a request that presented it
\* has reached the handler of /health
C23_Witness ==
    \E r \in Reqs :
        /\ credential = "env-key"
        /\ Authenticated(r)
        /\ req[r].path = PathHealth
        /\ Entered(r, "Handler")

\* the import raised: no credential, and the server takes no step
C23_FailedStart ==
    /\ credential = ""
    /\ ~ENABLED NextStart



(***************************************************************************)
(* C24: after a successful validation the level of every event is one of   *)
(* debug, info, warning, error, critical in lower case, whatever the case  *)
(* it was sent in, and it is "info" when the field was left out; an event  *)
(* whose level is not one of the five values, compared without regard to   *)
(* case, is rejected.                                                      *)
(***************************************************************************)
\* the raw events of the body of r, in order
RawEvents(r) ==
    IF req[r].body.k = "event" THEN <<req[r].body.event>>
    ELSE IF req[r].body.k = "batch" THEN req[r].body.events
    ELSE <<>>

\* validation has accepted the body of r
ValidationPassed(r) ==
    /\ Entered(r, "Validate")
    /\ pc[r] \in {"Limit", "Ingest", "Batch"} \/ Entered(r, "Limit") \/ Entered(r, "Handler")

\* the level is a string and is none of the five values in any letter case
LevelNotAllowed(raw) ==
    /\ raw.level.k = "str"
    /\ raw.level \notin {JStr(l) : l \in {"debug", "info", "warning", "error", "critical",
                                         "DEBUG", "INFO", "Warning", "ERROR", "Critical"}}

C24_LevelNormalised ==
    \A r \in Reqs :
        /\ ValidationPassed(r) =>
               /\ Len(events[r]) = Len(RawEvents(r))
               /\ \A i \in 1..Len(events[r]) :
                      /\ events[r][i].level.k = "str"
                      /\ events[r][i].level.v \in allowed_levels
                      /\ RawEvents(r)[i].level.k = "absent" =>
                             events[r][i].level = JStr("info")
        /\ (Entered(r, "Validate")
               /\ \E i \in 1..Len(RawEvents(r)) : LevelNotAllowed(RawEvents(r)[i])) =>
               ~ValidationPassed(r)



(***************************************************************************)
(* C25: validation is idempotent on valid events: the validated form of an *)
(* accepted event is accepted again, and validating it yields exactly the  *)
(* same form: the same lower-case level, the same tags in the same order,  *)
(* the same metadata and the same decoder.                                 *)
(***************************************************************************)
C25_ValidateIdempotent ==
    \A r \in Reqs :
        ValidationPassed(r) =>
            \A i \in 1..Len(events[r]) :
                /\ events[r][i] = IngestEvent(RawEvents(r)[i])
                /\ EventValid(events[r][i])
                /\ IngestEvent(events[r][i]) = events[r][i]

\* an event sent with its level in upper case and two tags has been
\* validated: its form holds the lower-case level and the tags as sent
C25_Witness ==
    \E r \in Reqs :
        /\ ValidationPassed(r)
        /\ \E i \in 1..Len(events[r]) :
               /\ RawEvents(r)[i].level = JStr("ERROR")
               /\ events[r][i].level = JStr("error")
               /\ events[r][i].tags = JList(<<"auth", "security">>)



(***************************************************************************)
(* C26: validation accepts an event if and only if timestamp, source and   *)
(* message are present, the timestamp is an ISO-8601 string of at least 10 *)
(* characters, the source has 1 to 256 and the message 1 to 65536          *)
(* characters, the level is one of the five values in any letter case,     *)
(* tags is a list of strings of at most 64 characters each, and the        *)
(* decoder, when present, has at most 128 characters; keys the schema does *)
(* not have are ignored.  An omitted or null level, tags or decoder counts *)
(* as not present.                                                         *)
(***************************************************************************)
\* the timestamps of the model that are written in ISO 8601
ISO8601 == {"2024-01-15T10:30:00Z", "2024-01-15T10:30:01Z", "2024-01-15"}

\* the condition of the specification on one raw event
Acceptable(raw) ==
    /\ raw.timestamp.k = "str"
    /\ raw.timestamp.v \in ISO8601
    /\ Len(raw.timestamp.v) >= 10
    /\ raw.source.k = "str"
    /\ Len(raw.source.v) >= 1 /\ Len(raw.source.v) <= 256
    /\ raw.message.k = "str"
    /\ Len(raw.message.v) >= 1 /\ Len(raw.message.v) <= 65536
    /\ raw.level.k = "str" => ~LevelNotAllowed(raw)
    /\ raw.tags.k \notin {"absent", "null"} =>
           /\ raw.tags.k = "list"
           /\ \A i \in 1..Len(raw.tags.v) : Len(raw.tags.v[i]) <= 64
    /\ raw.metadata.k \in {"absent", "null", "obj"}
    /\ raw.decoder.k = "str" => Len(raw.decoder.v) <= 128

C26_AcceptsExactly ==
    \A r \in Reqs :
        (Entered(r, "Validate") /\ req[r].body.k = "event") =>
            (ValidationPassed(r) <=> Acceptable(req[r].body.event))



(***************************************************************************)
(* C27: a /batch request in which at least one event fails validation is   *)
(* rejected as a whole with 400 before any delivery: send_msg is not       *)
(* called and no datagram is sent for any event of the batch, the valid    *)
(* events before the invalid one included.                                 *)
(***************************************************************************)
\* the batch of r holds an event that fails validation
HoldsInvalidEvent(r) ==
    /\ req[r].path = PathBatch
    /\ req[r].body.k = "batch"
    /\ \E i \in 1..Len(req[r].body.events) : ~EventValid(req[r].body.events[i])

C27_BatchRejectedWhole ==
    \A r \in Reqs :
        HoldsInvalidEvent(r) =>
            /\ ~Entered(r, "Limit")
            /\ ~Entered(r, "Handler")
            /\ pc[r] \notin {"Limit", "Batch"}
            /\ events[r] = <<>>
            /\ calls[r] = <<>>
            /\ wire[r] = <<>>
            /\ (Entered(r, "Validate") /\ pc[r] \in Outbound) =>
                   /\ resp[r].status = 400
                   /\ resp[r].body.error = "Validation Error"

\* a batch whose first event is valid and whose second is not has been
\* answered 400, and nothing was sent
C27_Witness ==
    \E r \in Reqs :
        /\ HoldsInvalidEvent(r)
        /\ Len(req[r].body.events) = 2
        /\ EventValid(req[r].body.events[1])
        /\ pc[r] = "done"
        /\ resp[r].status = 400
        /\ wire[r] = <<>>



(***************************************************************************)
(* C29: once the 504 of the timeout has been produced for a request, no    *)
(* further datagram is sent for it and send_msg is not called again; the   *)
(* datagrams sent before the timeout stay sent (the agent has them), and   *)
(* the step that produces the 504 sends nothing.                           *)
(***************************************************************************)
C29_NothingSentAfterTimeout ==
    [][\A r \in Reqs :
           pc'[r] # "idle" =>
               /\ TimedOut(r) => (wire'[r] = wire[r] /\ calls'[r] = calls[r])
               /\ (~TimedOut(r) /\ TimedOut(r)') =>
                      /\ wire'[r] = wire[r]
                      /\ calls'[r] = calls[r]
                      /\ resp'[r].status = 504
               /\ Len(wire'[r]) >= Len(wire[r])
               /\ SubSeq(wire'[r], 1, Len(wire[r])) = wire[r]]_vars

\* a request to /ingest timed out after its event had been delivered: the
\* client has the 504 and the agent has the datagram
C29_Witness ==
    \E r \in Reqs :
        /\ TimedOut(r)
        /\ pc[r] = "done"
        /\ resp[r].status = 504
        /\ Len(wire[r]) = 1
        /\ calls[r][1].result.status = "success"



(***************************************************************************)
(* C30: the datagrams of concurrent /batch requests are never interleaved: *)
(* from the first datagram of a batch to its last, no datagram of another  *)
(* request is sent, because the loop of ingest_batch has no point at which *)
(* the event loop can change to another task.                              *)
(***************************************************************************)
\* the loop of r has sent an event and has more to send
MidLoop(r) ==
    /\ pc[r] \in {"Batch", "Blocked"}
    /\ idx[r] > 0
    /\ ~loop_exhausted(idx[r], events[r])

C30_BatchesNotInterleaved ==
    [][\A r \in Reqs :
           (pc'[r] # "idle" /\ (wire'[r] # wire[r] \/ calls'[r] # calls[r])) =>
               \A q \in Reqs \ {r} : ~MidLoop(q)]_vars

\* two /batch requests are in flight together, one has sent all its
\* datagrams and the other is between its first and its last
C30_Witness ==
    \E r \in Reqs : \E q \in Reqs \ {r} :
        /\ req[r].path = PathBatch
        /\ req[q].path = PathBatch
        /\ pc[r] \in AwaitPoints
        /\ Len(wire[r]) = MaxBatch
        /\ MidLoop(q)
        /\ Len(wire[q]) = idx[q]

(***************************************************************************)
(* C31: a /batch request consumes one unit of its address's allowance of   *)
(* 100 per minute exactly in the step in which the limit of the route is   *)
(* checked, and that step comes after the payload-size check,              *)
(* authentication and validation have let the request pass. Passing the    *)
(* RateLimit middleware consumes nothing, and a request answered 413 or    *)
(* 400 by the payload-size check, 401 by authentication or 400 by          *)
(* validation never reaches the check of the limit and leaves every count  *)
(* as it was: rejected requests do not bring the next request of the       *)
(* address closer to 429.                                                  *)
(***************************************************************************)
\* r passes the RateLimit middleware in this step
PassesRateLimit(r) == pc[r] = "SlowAPI" /\ pc'[r] # "SlowAPI"

\* r is answered 413, 400 or 401 in this step
RejectedNow(r) == resp[r] = NoResponse /\ resp'[r].status \in {400, 401, 413}

C31_Step ==
    \A r \in Reqs :
        /\ PassesRateLimit(r) => hits' = hits
        /\ RejectedNow(r) => hits' = hits
        /\ Decides(r) =>
               /\ req[r].path = PathBatch
               /\ resp[r] = NoResponse
               /\ Entered(r, "PayloadSizeLimit")
               /\ Entered(r, "Auth")
               /\ Entered(r, "Validate")
               /\ \/ hits'[req[r].client] = hits[req[r].client] + 1
                  \/ hits[req[r].client] > RATE_LIMIT /\ hits' = hits

C31_Uncounted ==
    \A r \in Reqs :
        (req[r].path = PathBatch /\ resp[r].status \in {400, 401, 413}) =>
            /\ Entered(r, "RateLimit")
            /\ ~Entered(r, "Limit")

C31_QuotaConsumption == []C31_Uncounted /\ [][C31_Step]_vars

\* the first request of a behaviour is a /batch request with a wrong key:
\* it went through the RateLimit middleware and was answered 401, and the
\* 99 requests counted before it are still 99
C31_Witness ==
    \E r \in Reqs :
        /\ accepted = 1
        /\ req[r].path = PathBatch
        /\ pc[r] = "done"
        /\ resp[r].status = 401
        /\ Entered(r, "RateLimit")
        /\ hits[req[r].client] = RATE_LIMIT - 1

\* the claim as it is written: the request is counted when it passes the
\* RateLimit stage, before the checks that can reject it
C31_CountedAtRateLimit ==
    [][\A r \in Reqs :
           (PassesRateLimit(r) /\ req[r].path = PathBatch) =>
               hits'[req[r].client] = hits[req[r].client] + 1]_vars

=============================================================================
